---- MODULE Spec2Model ----
(***************************************************************************)
(* Model of the TinyAutoEncoderConverter tools (build_tiny_transcoder.py,  *)
(* build_tiny_vae.py, build_auxiliary.py).                                  *)
(*                                                                         *)
(* Python strings are sequences of one-character strings, so that          *)
(* startswith / endswith / "in" / split / int() / str() are computed on    *)
(* characters the way the interpreter computes them.  A Python dict is a   *)
(* sequence of <<key, value>> pairs with distinct keys, in insertion       *)
(* order.                                                                   *)
(***************************************************************************)
EXTENDS Integers, Sequences, FiniteSets, TLC

VARIABLES
    op,             \* library call made on the interpreter ("none" before it)
    arg,            \* its arguments
    out,            \* its return value
    reads,          \* the f.read calls get_safetensors_header made in it
    tool,           \* command-line tool that runs ("none", "vae", "transcoder")
    cli,            \* its parsed arguments
    pc,             \* position of main()
    encoder_found,  \* what find_taesd_with_role returned for role encoder
    decoder_found,  \* what find_taesd_with_role returned for role decoder
    loaded,         \* the (path, prefix) pairs load_tensors was called on
    built,          \* the checkpoint the build operation returned
    saved           \* whether save_file wrote the output file

callVars == <<op, arg, out, reads>>

runVars == <<tool, cli, pc, encoder_found, decoder_found, loaded, built, saved>>

vars == <<op, arg, out, reads, tool, cli, pc, encoder_found, decoder_found,
          loaded, built, saved>>

-----------------------------------------------------------------------------
(* Python str primitives *)

Digits == <<"0", "1", "2", "3", "4", "5", "6", "7", "8", "9">>

UpperCase == <<"A", "B", "C", "D", "E", "F", "G", "H", "I", "J", "K", "L", "M",
               "N", "O", "P", "Q", "R", "S", "T", "U", "V", "W", "X", "Y", "Z">>

LowerCase == <<"a", "b", "c", "d", "e", "f", "g", "h", "i", "j", "k", "l", "m",
               "n", "o", "p", "q", "r", "s", "t", "u", "v", "w", "x", "y", "z">>

\* s[a:b] with 0-based, end-exclusive indices 0 <= a, b
Slice(s, a, b) == SubSeq(s, a + 1, IF b > Len(s) THEN Len(s) ELSE b)

\* s[n:]
DropFirst(s, n) == SubSeq(s, n + 1, Len(s))

\* s[:-n]; Python evaluates s[:-0] as s[:0], the empty string
DropLast(s, n) == IF n = 0 THEN <<>> ELSE SubSeq(s, 1, Len(s) - n)

\* s.startswith(p)
StartsWith(s, p) == Len(p) <= Len(s) /\ SubSeq(s, 1, Len(p)) = p

\* s.endswith(p)
EndsWith(s, p) == Len(p) <= Len(s) /\ SubSeq(s, Len(s) - Len(p) + 1, Len(s)) = p

\* sub in s
Contains(s, sub) ==
    \E i \in 0..(Len(s) - Len(sub)) : SubSeq(s, i + 1, i + Len(sub)) = sub

\* s.find(c) for a single character: 0-based index, -1 when absent
Find(s, c) ==
    IF \E i \in 1..Len(s) : s[i] = c
    THEN (CHOOSE i \in 1..Len(s) : s[i] = c /\ \A j \in 1..(i - 1) : s[j] # c) - 1
    ELSE -1

\* s.rfind(c) for a single character: 0-based index, -1 when absent
RFind(s, c) ==
    IF \E i \in 1..Len(s) : s[i] = c
    THEN (CHOOSE i \in 1..Len(s) : s[i] = c /\ \A j \in (i + 1)..Len(s) : s[j] # c) - 1
    ELSE -1

\* s.lower() on ASCII text
LowerChar(c) ==
    IF \E i \in 1..26 : UpperCase[i] = c
    THEN LowerCase[CHOOSE i \in 1..26 : UpperCase[i] = c]
    ELSE c

Lower(s) == [i \in 1..Len(s) |-> LowerChar(s[i])]

\* s.split('.', 1): one part when s has no dot, else the text before the
\* first dot and the text after it
SplitDot1(s) ==
    LET i == Find(s, ".")
    IN  IF i < 0 THEN <<s>> ELSE <<Slice(s, 0, i), DropFirst(s, i + 1)>>

\* s.isdecimal() on ASCII text: non-empty and every character a digit
IsDecimal(s) ==
    /\ s # <<>>
    /\ \A i \in 1..Len(s) : \E d \in 1..10 : Digits[d] = s[i]

DigitValue(c) == (CHOOSE d \in 1..10 : Digits[d] = c) - 1

\* int(s) for a decimal string: leading zeros are accepted and dropped
RECURSIVE ParseInt(_)
ParseInt(s) ==
    IF s = <<>> THEN 0
    ELSE 10 * ParseInt(SubSeq(s, 1, Len(s) - 1)) + DigitValue(s[Len(s)])

\* str(n) for an int
RECURSIVE FormatNat(_)
FormatNat(n) ==
    IF n < 10 THEN <<Digits[n + 1]>>
    ELSE FormatNat(n \div 10) \o <<Digits[(n % 10) + 1]>>

FormatInt(n) == IF n < 0 THEN <<"-">> \o FormatNat(0 - n) ELSE FormatNat(n)

\* os.path.basename(p) (posixpath): the text after the last '/'
Basename(p) == DropFirst(p, RFind(p, "/") + 1)

\* os.path.splitext(p)[0] (posixpath): cut at the last dot of the last
\* component, unless that component has only leading dots before it
SplitextRoot(p) ==
    LET sepIndex == RFind(p, "/")
        dotIndex == RFind(p, ".")
    IN  IF dotIndex > sepIndex
           /\ \E f \in (sepIndex + 1)..(dotIndex - 1) : p[f + 1] # "."
        THEN Slice(p, 0, dotIndex)
        ELSE p

-----------------------------------------------------------------------------
(* Python dict primitives *)

HasKey(d, k) == \E i \in 1..Len(d) : d[i][1] = k

Get(d, k) == d[CHOOSE i \in 1..Len(d) : d[i][1] = k][2]

\* d[k] = v: replaces the value in place when k is present, appends otherwise
DictSet(d, k, v) ==
    IF HasKey(d, k)
    THEN [i \in 1..Len(d) |-> IF d[i][1] = k THEN <<k, v>> ELSE d[i]]
    ELSE Append(d, <<k, v>>)

\* the mapping a dict denotes (dict equality ignores insertion order)
AsMap(d) == {<<d[i][1], d[i][2]>> : i \in 1..Len(d)}

-----------------------------------------------------------------------------
(* String literals of the source *)

S_encoder == <<"e", "n", "c", "o", "d", "e", "r">>

S_decoder == <<"d", "e", "c", "o", "d", "e", "r">>

S_layers == <<"l", "a", "y", "e", "r", "s">>

S_weight == <<"w", "e", "i", "g", "h", "t">>

S_taesd == <<"t", "a", "e", "s", "d">>

S_taesdxl == <<"t", "a", "e", "s", "d", "x", "l">>

S_taesd3 == <<"t", "a", "e", "s", "d", "3">>

S_taef1 == <<"t", "a", "e", "f", "1">>

S_vae == <<"v", "a", "e">>

S_dot == <<".">>

S_model == <<"m", "o", "d", "e", "l">>

\* "3.conv.4.bias" (build_tiny_transcoder.py:245)
K_3_conv_4_bias ==
    <<"3", ".", "c", "o", "n", "v", ".", "4", ".", "b", "i", "a", "s">>

\* "8.conv.0.weight" (build_tiny_transcoder.py:246)
K_8_conv_0_weight ==
    <<"8", ".", "c", "o", "n", "v", ".", "0", ".", "w", "e", "i", "g", "h", "t">>

\* ".3.conv.4.bias" (build_tiny_transcoder.py:314)
K_dot_3_conv_4_bias ==
    <<".", "3", ".", "c", "o", "n", "v", ".", "4", ".", "b", "i", "a", "s">>

\* "decoder.layers.3.conv.4.bias" (build_tiny_transcoder.py:252)
K_dec_layers_3 ==
    <<"d", "e", "c", "o", "d", "e", "r", ".", "l", "a", "y", "e", "r", "s", ".", "3", ".", "c", "o", "n", "v", ".", "4", ".", "b", "i", "a", "s">>

\* "decoder.layers.8.conv.0.weight" (build_tiny_transcoder.py:253)
K_dec_layers_8 ==
    <<"d", "e", "c", "o", "d", "e", "r", ".", "l", "a", "y", "e", "r", "s", ".", "8", ".", "c", "o", "n", "v", ".", "0", ".", "w", "e", "i", "g", "h", "t">>

\* "encoder.layers.4.conv.4.bias" (build_tiny_transcoder.py:255)
K_enc_layers_4 ==
    <<"e", "n", "c", "o", "d", "e", "r", ".", "l", "a", "y", "e", "r", "s", ".", "4", ".", "c", "o", "n", "v", ".", "4", ".", "b", "i", "a", "s">>

\* "encoder.layers.8.conv.0.weight" (build_tiny_transcoder.py:256)
K_enc_layers_8 ==
    <<"e", "n", "c", "o", "d", "e", "r", ".", "l", "a", "y", "e", "r", "s", ".", "8", ".", "c", "o", "n", "v", ".", "0", ".", "w", "e", "i", "g", "h", "t">>

-----------------------------------------------------------------------------
(* Header Reader *)

\* size_limit default of get_safetensors_header
SizeLimit == 67108864

\* What json.loads yields for the header bytes: an "object" (its keys in
\* stored order in items), a "list" (its string elements in items), a
\* "number" (num), or "invalid" when the bytes are not JSON.
JsonObject(keys) == [kind |-> "object", items |-> keys, num |-> 0]

JsonList(elems) == [kind |-> "list", items |-> elems, num |-> 0]

JsonNumber(n) == [kind |-> "number", items |-> <<>>, num |-> n]

JsonInvalid == [kind |-> "invalid", items |-> <<>>, num |-> 0]

\* the `[]` the reader returns on every failure path
EmptyHeader == JsonList(<<>>)

\* Python truth value of a header value (`not state_dict`)
Truthy(h) ==
    CASE h.kind = "number" -> h.num # 0
      [] OTHER             -> h.items # <<>>

\* A file: exists (os.path.getsize raises OSError otherwise), size in bytes,
\* header_length (the little-endian u64 of its first 8 bytes), json (what
\* the header bytes that f.read returns parse to), tensors (the dict
\* safe_open serves: key -> tensor).
get_safetensors_header(file, size_limit) ==
    IF ~file.exists THEN EmptyHeader
    ELSE IF file.size < 8 THEN EmptyHeader
    ELSE IF file.header_length > size_limit THEN EmptyHeader
    ELSE IF file.json.kind = "invalid" THEN EmptyHeader
    ELSE file.json

\* f.read(n) at position offset: the bytes from offset up to the end of the
\* file, n of them at most
read(file, offset, n) ==
    LET left == IF file.size > offset THEN file.size - offset ELSE 0
    IN  [offset |-> offset, returned |-> IF n < left THEN n ELSE left]

get_safetensors_header_reads_HeaderBeforeLimit(file, size_limit) ==
    IF ~file.exists THEN <<>>
    ELSE IF file.size < 8 THEN <<>>
    ELSE <<read(file, 0, 8), read(file, 8, file.header_length)>>

\* the f.read calls of get_safetensors_header, in order: none when
\* os.path.getsize raises or gives less than 8, f.read(8) alone when the
\* declared length is over size_limit, f.read(header_length) after it
\* otherwise
get_safetensors_header_reads(file, size_limit) ==
    IF ~file.exists THEN <<>>
    ELSE IF file.size < 8 THEN <<>>
    ELSE IF file.header_length > size_limit THEN <<read(file, 0, 8)>>
    ELSE <<read(file, 0, 8), read(file, 8, file.header_length)>>

-----------------------------------------------------------------------------
(* Role Classifier *)

InSeq(x, s) == \E i \in 1..Len(s) : s[i] = x

TAESD_ROOT_NAMES == <<S_taesd, S_taesdxl, S_taesd3, S_taef1>>

\* is_taesd with the encoder rule testing layer 3, as the decoder rule does
is_taesd_EncoderLayer3(state_dict) ==
    \/ InSeq(K_3_conv_4_bias, state_dict) /\ InSeq(K_8_conv_0_weight, state_dict)
    \/ InSeq(K_dec_layers_3, state_dict) /\ InSeq(K_dec_layers_8, state_dict)
    \/ InSeq(S_encoder \o S_dot \o S_layers \o S_dot \o K_3_conv_4_bias, state_dict)
          /\ InSeq(K_enc_layers_8, state_dict)
    \/ \E i \in 1..Len(state_dict) : \E t \in 1..Len(TAESD_ROOT_NAMES) :
          StartsWith(state_dict[i], TAESD_ROOT_NAMES[t])

\* is_taesd on the keys of a dict, in stored order
is_taesd(state_dict) ==
    \/ InSeq(K_3_conv_4_bias, state_dict) /\ InSeq(K_8_conv_0_weight, state_dict)
    \/ InSeq(K_dec_layers_3, state_dict) /\ InSeq(K_dec_layers_8, state_dict)
    \/ InSeq(K_enc_layers_4, state_dict) /\ InSeq(K_enc_layers_8, state_dict)
    \/ \E i \in 1..Len(state_dict) : \E t \in 1..Len(TAESD_ROOT_NAMES) :
          StartsWith(state_dict[i], TAESD_ROOT_NAMES[t])

Roles == {S_encoder, S_decoder}

\* is_taesd_with_role testing the file name without lower-casing it
is_taesd_with_role_NoLower(file_path, header, role) ==
    IF ~Truthy(header) \/ ~is_taesd(header.items) THEN FALSE
    ELSE IF \E i \in 1..Len(header.items) : Contains(header.items[i], role) THEN TRUE
    ELSE Contains(SplitextRoot(Basename(file_path)), role)

\* is_taesd_with_role looking at the file name before the header
is_taesd_with_role_NameFirst(file_path, header, role) ==
    IF Contains(Lower(SplitextRoot(Basename(file_path))), role) THEN TRUE
    ELSE IF ~Truthy(header) \/ ~is_taesd(header.items) THEN FALSE
    ELSE \E i \in 1..Len(header.items) : Contains(header.items[i], role)

\* is_taesd_with_role on a header value that is falsy or a dict
is_taesd_with_role(file_path, header, role) ==
    IF ~Truthy(header) \/ ~is_taesd(header.items) THEN FALSE
    ELSE IF \E i \in 1..Len(header.items) : Contains(header.items[i], role) THEN TRUE
    ELSE Contains(Lower(SplitextRoot(Basename(file_path))), role)

\* A truthy header value that is no dict makes is_taesd_with_role raise:
\* `in` on a number is a TypeError, .keys() on a list an AttributeError.
is_taesd_with_role_raises(header) ==
    Truthy(header) /\ header.kind # "object"

-----------------------------------------------------------------------------
(* Prefix Resolver *)

\* the value None of the not_containing parameter
None == <<"None">>

RECURSIVE get_tensor_prefix_from(_, _, _, _)
get_tensor_prefix_from(keys, i, postfix, not_containing) ==
    IF i > Len(keys) THEN <<>>
    ELSE IF EndsWith(keys[i], postfix)
            /\ ~(not_containing # None /\ Contains(keys[i], not_containing))
         THEN DropLast(keys[i], Len(postfix))
         ELSE get_tensor_prefix_from(keys, i + 1, postfix, not_containing)

\* get_tensor_prefix that never skips a key for not_containing
get_tensor_prefix_NoExclusion(state_dict, postfix, not_containing) ==
    get_tensor_prefix_from(state_dict, 1, postfix, None)

get_tensor_prefix(state_dict, postfix, not_containing) ==
    get_tensor_prefix_from(state_dict, 1, postfix, not_containing)

-----------------------------------------------------------------------------
(* Tensor Projector *)

\* `if prefix and not prefix.endswith('.'): prefix += '.'`
WithDot(prefix) ==
    IF prefix # <<>> /\ ~EndsWith(prefix, S_dot) THEN prefix \o S_dot ELSE prefix

RECURSIVE load_tensors_from(_, _, _, _, _)
load_tensors_from(tensors, i, prefix, target_prefix, acc) ==
    IF i > Len(tensors) THEN acc
    ELSE load_tensors_from(tensors, i + 1, prefix, target_prefix,
            IF StartsWith(tensors[i][1], prefix)
            THEN DictSet(acc, target_prefix \o DropFirst(tensors[i][1], Len(prefix)),
                         tensors[i][2])
            ELSE acc)

\* load_tensors that leaves the source prefix as given
load_tensors_NoDot(tensors, prefix, target_prefix) ==
    load_tensors_from(tensors, 1, prefix, WithDot(target_prefix), <<>>)

\* load_tensors that keeps key[:prefix_len] in place of key[prefix_len:]
RECURSIVE load_tensors_head_from(_, _, _, _, _)
load_tensors_head_from(tensors, i, prefix, target_prefix, acc) ==
    IF i > Len(tensors) THEN acc
    ELSE load_tensors_head_from(tensors, i + 1, prefix, target_prefix,
            IF StartsWith(tensors[i][1], prefix)
            THEN DictSet(acc, target_prefix \o Slice(tensors[i][1], 0, Len(prefix)),
                         tensors[i][2])
            ELSE acc)

load_tensors_WrongSlice(tensors, prefix, target_prefix) ==
    load_tensors_head_from(tensors, 1, WithDot(prefix), WithDot(target_prefix), <<>>)

\* load_tensors that strips the source prefix and adds no target prefix
load_tensors_NoTarget(tensors, prefix, target_prefix) ==
    load_tensors_from(tensors, 1, WithDot(prefix), <<>>, <<>>)

\* load_tensors on the tensors of the file at path
load_tensors(tensors, prefix, target_prefix) ==
    load_tensors_from(tensors, 1, WithDot(prefix), WithDot(target_prefix), <<>>)

-----------------------------------------------------------------------------
(* Key Transformer *)

shifted_key(key, layer_prefix, layer_offset) ==
    IF ~StartsWith(key, layer_prefix) THEN key
    ELSE LET parts == SplitDot1(DropFirst(key, Len(layer_prefix)))
         IN  IF ~IsDecimal(parts[1]) THEN key
             ELSE LET new_layer_number == ParseInt(parts[1]) + layer_offset
                      dot_suffix == IF Len(parts) > 1 THEN S_dot \o parts[2] ELSE <<>>
                  IN  layer_prefix \o FormatInt(new_layer_number) \o dot_suffix

RECURSIVE shift_layers_from(_, _, _, _, _)
shift_layers_from(tensors, i, layer_prefix, layer_offset, fixed_tensors) ==
    IF i > Len(tensors) THEN fixed_tensors
    ELSE shift_layers_from(tensors, i + 1, layer_prefix, layer_offset,
            DictSet(fixed_tensors,
                    shifted_key(tensors[i][1], layer_prefix, layer_offset),
                    tensors[i][2]))

shift_layers(tensors, layer_prefix, layer_offset) ==
    shift_layers_from(tensors, 1, layer_prefix, layer_offset, <<>>)

-----------------------------------------------------------------------------
(* Input pools: keys, paths *)

\* "taesd_encoder.3.conv.4.bias"
K_taesd_encoder_3 ==
    <<"t", "a", "e", "s", "d", "_", "e", "n", "c", "o", "d", "e", "r", ".", "3", ".", "c", "o", "n",
    "v", ".", "4", ".", "b", "i", "a", "s">>

\* "taef1.x"
K_taef1_x ==
    <<"t", "a", "e", "f", "1", ".", "x">>

\* "vae.3.conv.4.bias"
K_vae_3 ==
    <<"v", "a", "e", ".", "3", ".", "c", "o", "n", "v", ".", "4", ".", "b", "i", "a", "s">>

\* "vae.8.conv.0.weight"
K_vae_8 ==
    <<"v", "a", "e", ".", "8", ".", "c", "o", "n", "v", ".", "0", ".", "w", "e", "i", "g", "h",
    "t">>

\* "encoder.layers.3.conv.4.bias"
K_enc_layers_3 ==
    <<"e", "n", "c", "o", "d", "e", "r", ".", "l", "a", "y", "e", "r", "s", ".", "3", ".", "c", "o",
    "n", "v", ".", "4", ".", "b", "i", "a", "s">>

\* "x"
K_x ==
    <<"x">>

\* "decoder.0.weight"
K_decoder_0_weight ==
    <<"d", "e", "c", "o", "d", "e", "r", ".", "0", ".", "w", "e", "i", "g", "h", "t">>

\* "decoder.1.weight"
K_decoder_1_weight ==
    <<"d", "e", "c", "o", "d", "e", "r", ".", "1", ".", "w", "e", "i", "g", "h", "t">>

\* "decoder.01.weight"
K_decoder_01_weight ==
    <<"d", "e", "c", "o", "d", "e", "r", ".", "0", "1", ".", "w", "e", "i", "g", "h", "t">>

\* "decoder.-1.weight"
K_decoder_m1_weight ==
    <<"d", "e", "c", "o", "d", "e", "r", ".", "-", "1", ".", "w", "e", "i", "g", "h", "t">>

\* "decoder.x.weight"
K_decoder_x_weight ==
    <<"d", "e", "c", "o", "d", "e", "r", ".", "x", ".", "w", "e", "i", "g", "h", "t">>

\* "decoder.5"
K_decoder_5 ==
    <<"d", "e", "c", "o", "d", "e", "r", ".", "5">>

\* "encoder.0.weight"
K_encoder_0_weight ==
    <<"e", "n", "c", "o", "d", "e", "r", ".", "0", ".", "w", "e", "i", "g", "h", "t">>

\* "0.weight"
K_0_weight ==
    <<"0", ".", "w", "e", "i", "g", "h", "t">>

\* "vaex.w"
K_vaex_w ==
    <<"v", "a", "e", "x", ".", "w">>

\* "taesd_decoder.safetensors"
P_taesd_decoder ==
    <<"t", "a", "e", "s", "d", "_", "d", "e", "c", "o", "d", "e", "r", ".", "s", "a", "f", "e", "t",
    "e", "n", "s", "o", "r", "s">>

\* "dir/TAESD_Encoder.safetensors"
P_TAESD_Encoder ==
    <<"d", "i", "r", "/", "T", "A", "E", "S", "D", "_", "E", "n", "c", "o", "d", "e", "r", ".", "s",
    "a", "f", "e", "t", "e", "n", "s", "o", "r", "s">>

\* "decoder/model.safetensors"
P_decoder_dir ==
    <<"d", "e", "c", "o", "d", "e", "r", "/", "m", "o", "d", "e", "l", ".", "s", "a", "f", "e", "t",
    "e", "n", "s", "o", "r", "s">>

\* "model.decoder"
P_model_decoder ==
    <<"m", "o", "d", "e", "l", ".", "d", "e", "c", "o", "d", "e", "r">>

\* "model.safetensors"
P_model ==
    <<"m", "o", "d", "e", "l", ".", "s", "a", "f", "e", "t", "e", "n", "s", "o", "r", "s">>

\* ".encoder"
P_dot_encoder ==
    <<".", "e", "n", "c", "o", "d", "e", "r">>

\* "decoder."
S_decoder_dot ==
    <<"d", "e", "c", "o", "d", "e", "r", ".">>

\* "encoder."
S_encoder_dot ==
    <<"e", "n", "c", "o", "d", "e", "r", ".">>

\* "vae."
S_vae_dot ==
    <<"v", "a", "e", ".">>

\* "decoder.layers"
S_dec_layers ==
    <<"d", "e", "c", "o", "d", "e", "r", ".", "l", "a", "y", "e", "r", "s">>

\* "taesd_encoder"
S_taesd_encoder ==
    <<"t", "a", "e", "s", "d", "_", "e", "n", "c", "o", "d", "e", "r">>

\* "3"
S_3 ==
    <<"3">>


-----------------------------------------------------------------------------
(* Bounded inputs *)

\* most keys in a header
MaxKeys == 2

\* most entries in a tensor set
MaxTensors == 2

\* largest layer offset, in absolute value
MaxOffset == 1

\* injective sequences of at most n elements of the sequence pool
SeqsOver(pool, n) ==
    UNION {{[i \in 1..m |-> pool[f[i]]] :
                f \in {g \in [1..m -> 1..Len(pool)] :
                          \A a, b \in 1..m : a # b => g[a] # g[b]}} : m \in 0..n}

HeaderKeys ==
    <<K_3_conv_4_bias, K_8_conv_0_weight, K_dec_layers_3, K_dec_layers_8,
      K_enc_layers_4, K_enc_layers_8, K_taesd_encoder_3, K_taef1_x,
      K_vae_3, K_vae_8, K_enc_layers_3, K_x>>

\* the key sequences of the dict headers
Headers == SeqsOver(HeaderKeys, MaxKeys)

Paths ==
    {P_taesd_decoder, P_TAESD_Encoder, P_decoder_dir, P_model_decoder, P_model,
     P_dot_encoder}

TensorKeys ==
    <<K_decoder_0_weight, K_decoder_1_weight, K_decoder_01_weight,
      K_decoder_m1_weight, K_decoder_x_weight, K_decoder_5, K_encoder_0_weight,
      K_0_weight, K_vae_3, K_vaex_w, S_vae_dot>>

\* tensor sets: the i-th entry holds the tensor with payload i
TensorSets ==
    {[i \in 1..Len(ks) |-> <<ks[i], i>>] : ks \in SeqsOver(TensorKeys, MaxTensors)}

\* what the header bytes of a file may parse to
JsonValues ==
    {JsonInvalid, JsonNumber(0), JsonNumber(5), JsonList(<<>>), JsonList(<<K_x>>),
     JsonList(<<K_3_conv_4_bias, K_8_conv_0_weight>>)}
    \cup {JsonObject(h) : h \in Headers}

SizeLimits == {16, SizeLimit}

\* files as the Header Reader sees them; a file with no header bytes to read
\* (header_length 0, or nothing after the first 8 bytes) parses to nothing
ReaderFiles ==
    {f \in [exists : BOOLEAN, size : {4, 8, 1000},
            header_length : {0, 2, 64, SizeLimit, SizeLimit + 1},
            json : JsonValues] :
        /\ (f.header_length = 0 \/ f.size <= 8) => f.json = JsonInvalid
        /\ ~f.exists => (f.size = 4 /\ f.header_length = 0)}

Postfixes == {K_dot_3_conv_4_bias, K_3_conv_4_bias, S_dot \o S_weight, <<>>}

Excludes == {None, S_encoder, S_decoder, S_3, <<>>}

SourcePrefixes == {<<>>, S_vae, S_vae_dot, S_decoder, S_dec_layers}

TargetPrefixes == {<<>>, S_encoder_dot, S_taesd_encoder}

LayerPrefixes == {S_decoder_dot, S_encoder_dot, <<>>, S_decoder}

-----------------------------------------------------------------------------
(* Calls of the library functions, each on a fresh interpreter *)

Idle == <<"idle">>

CallGetSafetensorsHeader ==
    /\ op = "none"
    /\ \E f \in ReaderFiles, lim \in SizeLimits :
        /\ op' = "get_safetensors_header"
        /\ arg' = [file |-> f, size_limit |-> lim]
        /\ out' = get_safetensors_header(f, lim)
        /\ reads' = get_safetensors_header_reads(f, lim)
    /\ UNCHANGED runVars

CallIsTaesd ==
    /\ op = "none"
    /\ \E h \in Headers :
        /\ op' = "is_taesd"
        /\ arg' = [state_dict |-> h]
        /\ out' = is_taesd(h)
    /\ reads' = <<>>
    /\ UNCHANGED runVars

CallIsTaesdWithRole ==
    /\ op = "none"
    /\ \E p \in Paths, h \in Headers, r \in Roles :
        /\ op' = "is_taesd_with_role"
        /\ arg' = [file_path |-> p, state_dict |-> h, role |-> r]
        /\ out' = is_taesd_with_role(p, JsonObject(h), r)
    /\ reads' = <<>>
    /\ UNCHANGED runVars

CallGetTensorPrefix ==
    /\ op = "none"
    /\ \E h \in Headers, s \in Postfixes, e \in Excludes :
        /\ op' = "get_tensor_prefix"
        /\ arg' = [state_dict |-> h, postfix |-> s, not_containing |-> e]
        /\ out' = get_tensor_prefix(h, s, e)
    /\ reads' = <<>>
    /\ UNCHANGED runVars

CallLoadTensors ==
    /\ op = "none"
    /\ \E t \in TensorSets, p \in SourcePrefixes, tp \in TargetPrefixes :
        /\ op' = "load_tensors"
        /\ arg' = [tensors |-> t, prefix |-> p, target_prefix |-> tp]
        /\ out' = load_tensors(t, p, tp)
    /\ reads' = <<>>
    /\ UNCHANGED runVars

CallShiftLayers ==
    /\ op = "none"
    /\ \E t \in TensorSets, p \in LayerPrefixes, n \in (0 - MaxOffset)..MaxOffset :
        /\ op' = "shift_layers"
        /\ arg' = [tensors |-> t, layer_prefix |-> p, layer_offset |-> n]
        /\ out' = shift_layers(t, p, n)
    /\ reads' = <<>>
    /\ UNCHANGED runVars

\* the result of a shift, shifted back by the opposite offset
CallShiftLayersBack ==
    /\ op = "shift_layers"
    /\ op' = "shift_layers_back"
    /\ arg' = arg
    /\ out' = shift_layers(out, arg.layer_prefix, 0 - arg.layer_offset)
    /\ reads' = <<>>
    /\ UNCHANGED runVars

Init ==
    /\ op = "none"
    /\ arg = Idle
    /\ out = Idle
    /\ reads = <<>>
    /\ tool = "none"
    /\ cli = Idle
    /\ pc = "idle"
    /\ encoder_found = Idle
    /\ decoder_found = Idle
    /\ loaded = <<>>
    /\ built = <<>>
    /\ saved = FALSE

-----------------------------------------------------------------------------
(* String literals of the build operations and more paths *)

\* "taesd_decoder"
S_taesd_decoder ==
    <<"t", "a", "e", "s", "d", "_", "d", "e", "c", "o", "d", "e", "r">>

\* "gaussian_blur_sigma"
K_gaussian_blur_sigma ==
    <<"g", "a", "u", "s", "s", "i", "a", "n", "_", "b", "l", "u", "r", "_", "s", "i", "g", "m",
    "a">>

\* "unnormalized_adapter_in.scale_factor"
K_adapter_in_scale ==
    <<"u", "n", "n", "o", "r", "m", "a", "l", "i", "z", "e", "d", "_", "a", "d", "a", "p", "t", "e",
    "r", "_", "i", "n", ".", "s", "c", "a", "l", "e", "_", "f", "a", "c", "t", "o", "r">>

\* "unnormalized_adapter_in.shift_factor"
K_adapter_in_shift ==
    <<"u", "n", "n", "o", "r", "m", "a", "l", "i", "z", "e", "d", "_", "a", "d", "a", "p", "t", "e",
    "r", "_", "i", "n", ".", "s", "h", "i", "f", "t", "_", "f", "a", "c", "t", "o", "r">>

\* "unnormalized_adapter_out.scale_factor"
K_adapter_out_scale ==
    <<"u", "n", "n", "o", "r", "m", "a", "l", "i", "z", "e", "d", "_", "a", "d", "a", "p", "t", "e",
    "r", "_", "o", "u", "t", ".", "s", "c", "a", "l", "e", "_", "f", "a", "c", "t", "o", "r">>

\* "unnormalized_adapter_out.shift_factor"
K_adapter_out_shift ==
    <<"u", "n", "n", "o", "r", "m", "a", "l", "i", "z", "e", "d", "_", "a", "d", "a", "p", "t", "e",
    "r", "_", "o", "u", "t", ".", "s", "h", "i", "f", "t", "_", "f", "a", "c", "t", "o", "r">>

\* "vae_scale"
K_vae_scale ==
    <<"v", "a", "e", "_", "s", "c", "a", "l", "e">>

\* "vae_shift"
K_vae_shift ==
    <<"v", "a", "e", "_", "s", "h", "i", "f", "t">>

\* "x.safetensors"
P_x ==
    <<"x", ".", "s", "a", "f", "e", "t", "e", "n", "s", "o", "r", "s">>

\* "vae_decoder.safetensors"
P_vae_decoder ==
    <<"v", "a", "e", "_", "d", "e", "c", "o", "d", "e", "r", ".", "s", "a", "f", "e", "t", "e", "n",
    "s", "o", "r", "s">>

\* "taesd3_decoder.safetensors"
P_taesd3_decoder ==
    <<"t", "a", "e", "s", "d", "3", "_", "d", "e", "c", "o", "d", "e", "r", ".", "s", "a", "f", "e",
    "t", "e", "n", "s", "o", "r", "s">>

\* "00.weight"
K_00_weight ==
    <<"0", "0", ".", "w", "e", "i", "g", "h", "t">>

\* "00/taesd_decoder.safetensors"
P_00_taesd_decoder ==
    <<"0", "0", "/", "t", "a", "e", "s", "d", "_", "d", "e", "c", "o", "d", "e", "r", ".", "s", "a",
    "f", "e", "t", "e", "n", "s", "o", "r", "s">>

\* "missing.safetensors"
P_missing ==
    <<"m", "i", "s", "s", "i", "n", "g", ".", "s", "a", "f", "e", "t", "e", "n", "s", "o", "r",
    "s">>

\* "taesd_encoder.safetensors"
P_taesd_encoder ==
    <<"t", "a", "e", "s", "d", "_", "e", "n", "c", "o", "d", "e", "r", ".", "s", "a", "f", "e", "t",
    "e", "n", "s", "o", "r", "s">>


-----------------------------------------------------------------------------
(* The files on disk *)

\* most files on the command line of build_tiny_vae
MaxFiles == 2

RawKeys == <<K_3_conv_4_bias, K_8_conv_0_weight>>

GoodFile(path, keys) ==
    [path |-> path, exists |-> TRUE, size |-> 1000, header_length |-> 64,
     json |-> JsonObject(keys)]

\* one file per path; FileAt is the file system
DiskFiles ==
    {GoodFile(P_taesd_decoder, RawKeys),
     GoodFile(P_TAESD_Encoder, RawKeys),
     GoodFile(P_model, <<K_dec_layers_3, K_dec_layers_8, K_enc_layers_3,
                         K_enc_layers_4, K_enc_layers_8>>),
     GoodFile(P_taesd_encoder, <<K_taesd_encoder_3, K_vae_scale>>),
     GoodFile(P_taesd3_decoder, <<K_0_weight, K_3_conv_4_bias, K_8_conv_0_weight>>),
     GoodFile(P_00_taesd_decoder, <<K_0_weight, K_00_weight, K_3_conv_4_bias,
                                    K_8_conv_0_weight>>),
     GoodFile(P_vae_decoder, <<K_vae_3, K_vae_8>>),
     GoodFile(P_x, <<K_x>>),
     [GoodFile(P_model_decoder, <<>>) EXCEPT !.json = JsonList(<<K_x>>)],
     [GoodFile(P_decoder_dir, RawKeys) EXCEPT !.header_length = SizeLimit + 1],
     [GoodFile(P_dot_encoder, <<>>) EXCEPT !.size = 4, !.json = JsonInvalid],
     [GoodFile(P_missing, <<>>) EXCEPT !.exists = FALSE, !.json = JsonInvalid]}

DiskPaths == {f.path : f \in DiskFiles}

FileAt(path) == CHOOSE f \in DiskFiles : f.path = path

\* bits of each element of a dtype
Bits(dtype) ==
    CASE dtype = "float16" -> 16
      [] dtype = "float32" -> 32
      [] dtype = "float64" -> 64

\* an array: data names the numbers it was made from, precision is the
\* narrowest dtype they have been stored in since
Tensor(data, dtype, shape) ==
    [data |-> data, dtype |-> dtype, shape |-> shape, precision |-> Bits(dtype)]

\* the tensors safe_open serves for a container: one per header key, each
\* with the payload of that key of that file; containers hold 16-bit and
\* 32-bit tensors of several shapes
TensorsAt(path) ==
    LET keys == FileAt(path).json.items
    IN  [i \in 1..Len(keys) |->
            <<keys[i], Tensor(<<path, keys[i]>>,
                              IF i % 2 = 1 THEN "float32" ELSE "float16",
                              <<i, 3>>)>>]

\* safe_open(path) succeeds on an existing file that is a tensor container
CanOpen(path) ==
    /\ path \in DiskPaths
    /\ FileAt(path).exists
    /\ FileAt(path).size >= 8
    /\ FileAt(path).json.kind = "object"

-----------------------------------------------------------------------------
(* Candidate search *)

OppositeRole(role) == IF role = S_encoder THEN S_decoder ELSE S_encoder

\* find_taesd_with_role of build_tiny_transcoder.py: (file, prefix) of the
\* first file with the role, None when there is none; raised when
\* is_taesd_with_role raised on a file
RECURSIVE find_taesd_with_role_from(_, _, _)
find_taesd_with_role_from(input_files, i, role) ==
    IF i > Len(input_files) THEN [raised |-> FALSE, value |-> None]
    ELSE LET file == input_files[i]
             header == get_safetensors_header(FileAt(file), SizeLimit)
         IN  IF is_taesd_with_role_raises(header)
             THEN [raised |-> TRUE, value |-> None]
             ELSE IF is_taesd_with_role(file, header, role)
             THEN [raised |-> FALSE,
                   value |-> <<file, get_tensor_prefix(header.items, K_dot_3_conv_4_bias,
                                                       OppositeRole(role))>>]
             ELSE find_taesd_with_role_from(input_files, i + 1, role)

find_taesd_with_role(input_files, role) ==
    find_taesd_with_role_from(input_files, 1, role)

\* find_taesd_with_role of build_tiny_vae.py: ("", "") when there is none
find_taesd_with_role_vae(input_files, role) ==
    LET r == find_taesd_with_role_from(input_files, 1, role)
    IN  IF ~r.raised /\ r.value = None
        THEN [raised |-> FALSE, value |-> <<<<>>, <<>>>>]
        ELSE r

-----------------------------------------------------------------------------
(* Checkpoint Assembler *)

VALID_LATENT_FORMATS == {"sd", "sdxl", "sd3", "f1"}

VALID_MODEL_CLASSES == {"sd", "sdxl", "sd3", "f1"}

\* dtype = None
NoDtype == "None"

Dtypes == {NoDtype, "float16", "float32"}

\* scale and shift by latent format; floats are written in units of 0.00001
SCALE_SHIFT_BY_LATENT_FORMAT ==
    [f \in VALID_LATENT_FORMATS |->
        CASE f = "sd"   -> <<18215, 0>>
          [] f = "sdxl" -> <<13025, 0>>
          [] f = "sd3"  -> <<153050, -6090>>
          [] f = "f1"   -> <<36110, -11590>>]

\* SCALE_SHIFT_BY_LATENT_FORMAT.get(latent_format, (1., 0.))
scale_shift_get(latent_format) ==
    IF latent_format \in DOMAIN SCALE_SHIFT_BY_LATENT_FORMAT
    THEN SCALE_SHIFT_BY_LATENT_FORMAT[latent_format]
    ELSE <<100000, 0>>

\* the data of an array made from a float literal of the source; the data of
\* a tensor of a file is (path, key)
Literal(v) == <<<<"literal">>, <<ToString(v)>>>>

\* np.array([v], dtype=np.float32)
Float32Array(v) == Tensor(Literal(v), "float32", <<1>>)

\* np.array(v): numpy makes a Python float a float64 array of no dimension
Float64Scalar(v) == Tensor(Literal(v), "float64", <<>>)

\* tensor.astype(dtype): same shape, each element rounded to the new dtype
astype(tensor, dtype) ==
    [tensor EXCEPT !.dtype = dtype,
                   !.precision = IF Bits(dtype) < @ THEN Bits(dtype) ELSE @]

\* {**a, **b}
RECURSIVE MergeFrom(_, _, _)
MergeFrom(a, b, i) ==
    IF i > Len(b) THEN a ELSE MergeFrom(DictSet(a, b[i][1], b[i][2]), b, i + 1)

Merge(a, b) == MergeFrom(a, b, 1)

\* a conversion loop that leaves arrays of no dimension as they are
convert_tensors_SkipScalars(tensors, dtype) ==
    IF dtype = NoDtype THEN tensors
    ELSE [i \in 1..Len(tensors) |->
            <<tensors[i][1], IF tensors[i][2].shape = <<>> THEN tensors[i][2]
                             ELSE astype(tensors[i][2], dtype)>>]

\* the dtype conversion loop at the end of each build operation; every value
\* of the mapping is an ndarray
convert_tensors(tensors, dtype) ==
    IF dtype = NoDtype THEN tensors
    ELSE [i \in 1..Len(tensors) |-> <<tensors[i][1], astype(tensors[i][2], dtype)>>]

\* how a call of a build operation ends: with the returned mapping, or with
\* the exception raised; loaded lists the sources safe_open was called on
Returned(value, sources) == [raised |-> "no", loaded |-> sources, value |-> value]

Raised(exception, sources) == [raised |-> exception, loaded |-> sources, value |-> <<>>]

\* `assert ... in VALID_LATENT_FORMATS`, on an interpreter that runs asserts
assert_valid_NotChecked(latent_format, valid) == TRUE

assert_valid(latent_format, valid) == latent_format \in valid

\* if "decoder.0.weight" exists, shift all the decoder layers by 1
fix_decoder_layers(tensors) ==
    IF HasKey(tensors, K_decoder_0_weight)
    THEN shift_layers(tensors, S_decoder_dot, 1)
    ELSE tensors

\* from SDXL to SD, add the sigma of a gaussian blur
add_gaussian_blur_AnyToSd(tensors, input_latent_format, output_latent_format) ==
    IF output_latent_format = "sd"
    THEN DictSet(tensors, K_gaussian_blur_sigma, Float32Array(50000))
    ELSE tensors

add_gaussian_blur(tensors, input_latent_format, output_latent_format) ==
    IF input_latent_format = "sdxl" /\ output_latent_format = "sd"
    THEN DictSet(tensors, K_gaussian_blur_sigma, Float32Array(50000))
    ELSE tensors

\* insert the adapter of the input and of the output latent format
add_adapter_Swapped(tensors, use_unnormalized_adapter, input_latent_format, output_latent_format) ==
    LET ss_in  == scale_shift_get(output_latent_format)
        ss_out == scale_shift_get(input_latent_format)
    IN  IF use_unnormalized_adapter
        THEN DictSet(DictSet(DictSet(DictSet(tensors,
                 K_adapter_in_scale,  Float32Array(ss_in[1])),
                 K_adapter_in_shift,  Float32Array(ss_in[2])),
                 K_adapter_out_scale, Float32Array(ss_out[1])),
                 K_adapter_out_shift, Float32Array(ss_out[2]))
        ELSE tensors

add_adapter(tensors, use_unnormalized_adapter, input_latent_format, output_latent_format) ==
    LET ss_in  == scale_shift_get(input_latent_format)
        ss_out == scale_shift_get(output_latent_format)
    IN  IF use_unnormalized_adapter
        THEN DictSet(DictSet(DictSet(DictSet(tensors,
                 K_adapter_in_scale,  Float32Array(ss_in[1])),
                 K_adapter_in_shift,  Float32Array(ss_in[2])),
                 K_adapter_out_scale, Float32Array(ss_out[1])),
                 K_adapter_out_shift, Float32Array(ss_out[2]))
        ELSE tensors

\* build_tiny_transcoder: the asserts come first, then the encoder source is
\* loaded, then the decoder source; load_tensors raises when safe_open
\* cannot open its path
build_tiny_transcoder(encoder_path_and_prefix, decoder_path_and_prefix, use_unnormalized_adapter, input_latent_format, output_latent_format, dtype) ==
    IF ~assert_valid(input_latent_format, VALID_LATENT_FORMATS)
       \/ ~assert_valid(output_latent_format, VALID_LATENT_FORMATS)
    THEN Raised("AssertionError", <<>>)
    ELSE IF ~CanOpen(encoder_path_and_prefix[1])
    THEN Raised("safe_open", <<encoder_path_and_prefix>>)
    ELSE IF ~CanOpen(decoder_path_and_prefix[1])
    THEN Raised("safe_open", <<encoder_path_and_prefix, decoder_path_and_prefix>>)
    ELSE
    LET encoder_tensors == load_tensors(TensorsAt(encoder_path_and_prefix[1]),
                                        encoder_path_and_prefix[2], S_encoder_dot)
        decoder_tensors == load_tensors(TensorsAt(decoder_path_and_prefix[1]),
                                        decoder_path_and_prefix[2], S_decoder_dot)
        merged  == Merge(encoder_tensors, decoder_tensors)
        shifted == fix_decoder_layers(merged)
        blurred == add_gaussian_blur(shifted, input_latent_format, output_latent_format)
        adapted == add_adapter(blurred, use_unnormalized_adapter,
                               input_latent_format, output_latent_format)
    IN  Returned(convert_tensors(adapted, dtype),
                 <<encoder_path_and_prefix, decoder_path_and_prefix>>)

\* the table of build_tiny_vae with the signs of the adapter table
VAE_SCALE_SHIFT_SignedAsAdapter == SCALE_SHIFT_BY_LATENT_FORMAT

\* vae_scale and vae_shift by model class
VAE_SCALE_SHIFT ==
    [c \in VALID_MODEL_CLASSES |->
        CASE c = "sd"   -> <<18215, 0>>
          [] c = "sdxl" -> <<13025, 0>>
          [] c = "sd3"  -> <<153050, 6090>>
          [] c = "f1"   -> <<36110, 11590>>]

\* an injection that any stored key ending in vae_scale or vae_shift holds back
add_vae_scale_shift_UnlessStored(tiny_vae_params, model_class) ==
    IF (\A i \in 1..Len(tiny_vae_params) :
            /\ ~EndsWith(tiny_vae_params[i][1], K_vae_scale)
            /\ ~EndsWith(tiny_vae_params[i][1], K_vae_shift))
       /\ model_class \in DOMAIN VAE_SCALE_SHIFT
    THEN DictSet(DictSet(tiny_vae_params,
             K_vae_scale, Float64Scalar(VAE_SCALE_SHIFT[model_class][1])),
             K_vae_shift, Float64Scalar(VAE_SCALE_SHIFT[model_class][2]))
    ELSE tiny_vae_params

\* add vae_scale and vae_shift if they are missing;
\* the if/elif chain over the model classes injects nothing for any other
add_vae_scale_shift(tiny_vae_params, model_class) ==
    IF ~HasKey(tiny_vae_params, K_vae_scale) /\ ~HasKey(tiny_vae_params, K_vae_shift)
       /\ model_class \in DOMAIN VAE_SCALE_SHIFT
    THEN DictSet(DictSet(tiny_vae_params,
             K_vae_scale, Float64Scalar(VAE_SCALE_SHIFT[model_class][1])),
             K_vae_shift, Float64Scalar(VAE_SCALE_SHIFT[model_class][2]))
    ELSE tiny_vae_params

\* build_tiny_vae that checks the model class after loading the sources
build_tiny_vae_AssertAfterLoad(encoder_path_and_prefix, decoder_path_and_prefix, model_class, dtype) ==
    IF ~CanOpen(encoder_path_and_prefix[1])
    THEN Raised("safe_open", <<encoder_path_and_prefix>>)
    ELSE IF ~CanOpen(decoder_path_and_prefix[1])
    THEN Raised("safe_open", <<encoder_path_and_prefix, decoder_path_and_prefix>>)
    ELSE IF ~assert_valid(model_class, VALID_MODEL_CLASSES)
    THEN Raised("AssertionError", <<encoder_path_and_prefix, decoder_path_and_prefix>>)
    ELSE Returned(convert_tensors(add_vae_scale_shift(
                      Merge(load_tensors(TensorsAt(encoder_path_and_prefix[1]),
                                         encoder_path_and_prefix[2], S_taesd_encoder),
                            load_tensors(TensorsAt(decoder_path_and_prefix[1]),
                                         decoder_path_and_prefix[2], S_taesd_decoder)),
                      model_class), dtype),
                  <<encoder_path_and_prefix, decoder_path_and_prefix>>)

build_tiny_vae(encoder_path_and_prefix, decoder_path_and_prefix, model_class, dtype) ==
    IF ~assert_valid(model_class, VALID_MODEL_CLASSES)
    THEN Raised("AssertionError", <<>>)
    ELSE IF ~CanOpen(encoder_path_and_prefix[1])
    THEN Raised("safe_open", <<encoder_path_and_prefix>>)
    ELSE IF ~CanOpen(decoder_path_and_prefix[1])
    THEN Raised("safe_open", <<encoder_path_and_prefix, decoder_path_and_prefix>>)
    ELSE
    LET encoder_tensors == load_tensors(TensorsAt(encoder_path_and_prefix[1]),
                                        encoder_path_and_prefix[2], S_taesd_encoder)
        decoder_tensors == load_tensors(TensorsAt(decoder_path_and_prefix[1]),
                                        decoder_path_and_prefix[2], S_taesd_decoder)
        tiny_vae_params == Merge(encoder_tensors, decoder_tensors)
        injected == add_vae_scale_shift(tiny_vae_params, model_class)
    IN  Returned(convert_tensors(injected, dtype),
                 <<encoder_path_and_prefix, decoder_path_and_prefix>>)

-----------------------------------------------------------------------------
(* build_auxiliary.py *)

\* "first_stage_model.sd"
S_first_stage_model_sd ==
    <<"f", "i", "r", "s", "t", "_", "s", "t", "a", "g", "e", "_", "m", "o", "d", "e", "l", ".", "s",
    "d">>

\* "first_stage_model.xl"
S_first_stage_model_xl ==
    <<"f", "i", "r", "s", "t", "_", "s", "t", "a", "g", "e", "_", "m", "o", "d", "e", "l", ".", "x",
    "l">>

\* "transcoder"
S_transcoder ==
    <<"t", "r", "a", "n", "s", "c", "o", "d", "e", "r">>

\* "taesd_encoder."
S_taesd_encoder_dot ==
    <<"t", "a", "e", "s", "d", "_", "e", "n", "c", "o", "d", "e", "r", ".">>

\* "taesd_decoder."
S_taesd_decoder_dot ==
    <<"t", "a", "e", "s", "d", "_", "d", "e", "c", "o", "d", "e", "r", ".">>

\* s.replace(old, new, 1): the first occurrence of old is replaced
Replace1(s, old, new) ==
    IF ~Contains(s, old) THEN s
    ELSE LET i == CHOOSE k \in 0..(Len(s) - Len(old)) :
                      /\ SubSeq(s, k + 1, k + Len(old)) = old
                      /\ \A j \in 0..(k - 1) : SubSeq(s, j + 1, j + Len(old)) # old
         IN  SubSeq(s, 1, i) \o new \o DropFirst(s, i + Len(old))

\* the body of the loop of load_encoder_decoder on one key
load_encoder_decoder_step(output, key, tensor, encoder_prefix, decoder_prefix) ==
    IF StartsWith(key, S_taesd_encoder_dot)
    THEN DictSet(output, Replace1(key, S_taesd_encoder_dot, encoder_prefix), tensor)
    ELSE IF StartsWith(key, S_taesd_decoder_dot)
    THEN DictSet(output, Replace1(key, S_taesd_decoder_dot, decoder_prefix), tensor)
    ELSE IF key = K_vae_scale
    THEN DictSet(DictSet(output, encoder_prefix \o K_vae_scale, tensor),
                 decoder_prefix \o K_vae_scale, tensor)
    ELSE IF key = K_vae_shift
    THEN DictSet(DictSet(output, encoder_prefix \o K_vae_shift, tensor),
                 decoder_prefix \o K_vae_shift, tensor)
    ELSE output

RECURSIVE load_encoder_decoder_from(_, _, _, _, _)
load_encoder_decoder_from(state_dict, i, encoder_prefix, decoder_prefix, output) ==
    IF i > Len(state_dict) THEN output
    ELSE load_encoder_decoder_from(state_dict, i + 1, encoder_prefix, decoder_prefix,
            load_encoder_decoder_step(output, state_dict[i][1], state_dict[i][2],
                                      encoder_prefix, decoder_prefix))

\* load_encoder_decoder that copies vae_scale and vae_shift to the encoder only
load_encoder_decoder_EncoderOnly(tensors, prefix, target_prefix) ==
    LET output == load_encoder_decoder_from(load_tensors(tensors, prefix, <<>>), 1,
                      WithDot(target_prefix) \o S_encoder_dot,
                      WithDot(target_prefix) \o S_decoder_dot, <<>>)
    IN  SelectSeq(output, LAMBDA e :
            e[1] \notin {WithDot(target_prefix) \o S_decoder_dot \o K_vae_scale,
                         WithDot(target_prefix) \o S_decoder_dot \o K_vae_shift})

\* load_encoder_decoder on the tensors of the file at path
load_encoder_decoder(tensors, prefix, target_prefix) ==
    load_encoder_decoder_from(load_tensors(tensors, prefix, <<>>), 1,
        WithDot(target_prefix) \o S_encoder_dot,
        WithDot(target_prefix) \o S_decoder_dot, <<>>)

\* `if dtype:` on None, np.float16 or np.float32: a class is true
dtype_truthy(dtype) == dtype # NoDtype

\* build_auxiliary that puts both VAEs under 'first_stage_model.sd'
build_auxiliary_OneVaeTarget(tiny_vae_sd, tiny_vae_sdxl, tiny_transcoder, dtype) ==
    LET tiny_vae_sd_tensors     == load_encoder_decoder(tiny_vae_sd, <<>>,
                                                        S_first_stage_model_sd)
        tiny_vae_sdxl_tensors   == load_encoder_decoder(tiny_vae_sdxl, <<>>,
                                                        S_first_stage_model_sd)
        tiny_transcoder_tensors == load_tensors(tiny_transcoder, <<>>, S_transcoder)
        state_dict == Merge(Merge(tiny_vae_sd_tensors, tiny_vae_sdxl_tensors),
                            tiny_transcoder_tensors)
    IN  IF dtype_truthy(dtype) THEN convert_tensors(state_dict, dtype) ELSE state_dict

\* build_auxiliary on the tensors of the three files
build_auxiliary(tiny_vae_sd, tiny_vae_sdxl, tiny_transcoder, dtype) ==
    LET tiny_vae_sd_tensors     == load_encoder_decoder(tiny_vae_sd, <<>>,
                                                        S_first_stage_model_sd)
        tiny_vae_sdxl_tensors   == load_encoder_decoder(tiny_vae_sdxl, <<>>,
                                                        S_first_stage_model_xl)
        tiny_transcoder_tensors == load_tensors(tiny_transcoder, <<>>, S_transcoder)
        state_dict == Merge(Merge(tiny_vae_sd_tensors, tiny_vae_sdxl_tensors),
                            tiny_transcoder_tensors)
    IN  IF dtype_truthy(dtype) THEN convert_tensors(state_dict, dtype) ELSE state_dict

-----------------------------------------------------------------------------
(* Calls of the build operations, each on a fresh interpreter *)

\* most tensors in the three files given to build_auxiliary, taken together
MaxAuxKeys == 2

\* "taesd_decoder.1.weight"
K_taesd_decoder_1_weight ==
    <<"t", "a", "e", "s", "d", "_", "d", "e", "c", "o", "d", "e", "r", ".", "1", ".", "w", "e", "i",
    "g", "h", "t">>

\* "taesd_encoder.vae_scale"
K_taesd_encoder_vae_scale ==
    <<"t", "a", "e", "s", "d", "_", "e", "n", "c", "o", "d", "e", "r", ".", "v", "a", "e", "_", "s",
    "c", "a", "l", "e">>

\* "taesd_encoder.taesd_encoder.w"
K_taesd_encoder_nested ==
    <<"t", "a", "e", "s", "d", "_", "e", "n", "c", "o", "d", "e", "r", ".", "t", "a", "e", "s", "d",
    "_", "e", "n", "c", "o", "d", "e", "r", ".", "w">>

\* "taesd_encoder"
K_taesd_encoder ==
    <<"t", "a", "e", "s", "d", "_", "e", "n", "c", "o", "d", "e", "r">>

\* (path, prefix) pairs given to the build operations
BuildSources ==
    {<<P_TAESD_Encoder, <<>>>>, <<P_taesd_decoder, <<>>>>, <<P_taesd3_decoder, <<>>>>,
     <<P_00_taesd_decoder, <<>>>>, <<P_model, S_encoder \o S_dot \o S_layers>>,
     <<P_model, S_dec_layers>>, <<P_taesd_encoder, <<>>>>, <<P_model_decoder, <<>>>>,
     <<P_missing, <<>>>>}

\* latent formats and model classes that are not valid
InvalidFormats == {"flux", ""}

\* keys of the files given to build_auxiliary
AuxVaeKeys ==
    <<K_taesd_encoder_3, K_taesd_decoder_1_weight, K_vae_scale, K_vae_shift,
      K_taesd_encoder_vae_scale, K_taesd_encoder_nested, K_taesd_encoder, K_x>>

AuxTranscoderKeys ==
    <<K_encoder_0_weight, K_decoder_1_weight, K_gaussian_blur_sigma, K_vae_scale>>

\* the tensors of a file with these keys
AuxTensors(file, keys) ==
    [i \in 1..Len(keys) |->
        <<keys[i], Tensor(<<file, keys[i]>>,
                          IF i % 2 = 1 THEN "float32" ELSE "float16", <<i, 3>>)>>]

AuxInputs ==
    {x \in [sd : SeqsOver(AuxVaeKeys, MaxAuxKeys), xl : SeqsOver(AuxVaeKeys, MaxAuxKeys),
            transcoder : SeqsOver(AuxTranscoderKeys, MaxAuxKeys)] :
        Len(x.sd) + Len(x.xl) + Len(x.transcoder) <= MaxAuxKeys}

CallBuildTinyTranscoder ==
    /\ op = "none"
    /\ \E e \in BuildSources, d \in BuildSources, u \in BOOLEAN,
          fi \in VALID_LATENT_FORMATS \cup InvalidFormats,
          fo \in VALID_LATENT_FORMATS \cup InvalidFormats, t \in Dtypes :
        /\ op' = "build_tiny_transcoder"
        /\ arg' = [encoder_path_and_prefix |-> e, decoder_path_and_prefix |-> d,
                   use_unnormalized_adapter |-> u, input_latent_format |-> fi,
                   output_latent_format |-> fo, dtype |-> t]
        /\ out' = build_tiny_transcoder(e, d, u, fi, fo, t)
    /\ reads' = <<>>
    /\ UNCHANGED runVars

CallBuildTinyVae ==
    /\ op = "none"
    /\ \E e \in BuildSources, d \in BuildSources,
          c \in VALID_MODEL_CLASSES \cup InvalidFormats, t \in Dtypes :
        /\ op' = "build_tiny_vae"
        /\ arg' = [encoder_path_and_prefix |-> e, decoder_path_and_prefix |-> d,
                   model_class |-> c, dtype |-> t]
        /\ out' = build_tiny_vae(e, d, c, t)
    /\ reads' = <<>>
    /\ UNCHANGED runVars

CallBuildAuxiliary ==
    /\ op = "none"
    /\ \E x \in AuxInputs, t \in Dtypes :
        /\ op' = "build_auxiliary"
        /\ arg' = [tiny_vae_sd |-> AuxTensors(<<"sd">>, x.sd),
                   tiny_vae_sdxl |-> AuxTensors(<<"sdxl">>, x.xl),
                   tiny_transcoder |-> AuxTensors(<<"transcoder">>, x.transcoder),
                   dtype |-> t]
        /\ out' = build_auxiliary(arg'.tiny_vae_sd, arg'.tiny_vae_sdxl,
                                  arg'.tiny_transcoder, t)
    /\ reads' = <<>>
    /\ UNCHANGED runVars

Next ==
    \/ CallGetSafetensorsHeader
    \/ CallIsTaesd
    \/ CallIsTaesdWithRole
    \/ CallGetTensorPrefix
    \/ CallLoadTensors
    \/ CallShiftLayers
    \/ CallShiftLayersBack
    \/ CallBuildTinyTranscoder
    \/ CallBuildTinyVae
    \/ CallBuildAuxiliary

Spec == Init /\ [][Next]_vars

-----------------------------------------------------------------------------
(* main() of build_tiny_vae.py and of build_tiny_transcoder.py *)

\* the command lines: build_tiny_vae takes a list of input files and at most
\* one model class flag; build_tiny_transcoder takes one --from-* and one
\* --to-* option, each with a path that may be the empty string
VaeCommandLines ==
    [input_files : SeqsOver(<<P_taesd_decoder, P_TAESD_Encoder, P_model, P_taesd_encoder,
                              P_taesd3_decoder, P_vae_decoder, P_x, P_model_decoder,
                              P_decoder_dir, P_dot_encoder, P_missing>>, MaxFiles)
                   \ {<<>>},
     model_class : VALID_MODEL_CLASSES \cup {"None"},
     dtype : Dtypes]

TranscoderCommandLines ==
    [from_latent_format : VALID_LATENT_FORMATS, decoder_path : DiskPaths \cup {<<>>},
     to_latent_format : VALID_LATENT_FORMATS, encoder_path : DiskPaths \cup {<<>>},
     dtype : Dtypes]

InitRun ==
    /\ op = "none"
    /\ arg = Idle
    /\ out = Idle
    /\ reads = <<>>
    /\ \/ tool = "vae" /\ cli \in VaeCommandLines
       \/ tool = "transcoder" /\ cli \in TranscoderCommandLines
    /\ pc = "start"
    /\ encoder_found = Idle
    /\ decoder_found = Idle
    /\ loaded = <<>>
    /\ built = <<>>
    /\ saved = FALSE

\* build_tiny_vae.py: `if not args.model_class: fatal_error(...)`
VaeCheckModelClass ==
    /\ tool = "vae" /\ pc = "start"
    /\ pc' = IF cli.model_class = "None" THEN "fatal" ELSE "find_encoder"
    /\ UNCHANGED <<callVars, tool, cli, encoder_found, decoder_found, loaded, built, saved>>

\* build_tiny_transcoder.py: an empty path leaves the latent format unset,
\* and `if not from_latent_format` / `if not to_latent_format` is fatal
TranscoderCheckFormats ==
    /\ tool = "transcoder" /\ pc = "start"
    /\ pc' = IF cli.decoder_path = <<>> \/ cli.encoder_path = <<>>
             THEN "fatal" ELSE "find_encoder"
    /\ UNCHANGED <<callVars, tool, cli, encoder_found, decoder_found, loaded, built, saved>>

FindFor(role) ==
    IF tool = "vae"
    THEN find_taesd_with_role_vae(cli.input_files, role)
    ELSE find_taesd_with_role(
            <<IF role = S_encoder THEN cli.encoder_path ELSE cli.decoder_path>>, role)

FindEncoder ==
    /\ pc = "find_encoder"
    /\ LET r == FindFor(S_encoder)
       IN  /\ encoder_found' = r.value
           /\ pc' = IF r.raised THEN "crashed" ELSE "find_decoder"
    /\ UNCHANGED <<callVars, tool, cli, decoder_found, loaded, built, saved>>

FindDecoder ==
    /\ pc = "find_decoder"
    /\ LET r == FindFor(S_decoder)
       IN  /\ decoder_found' = r.value
           /\ pc' = IF r.raised THEN "crashed" ELSE "check"
    /\ UNCHANGED <<callVars, tool, cli, encoder_found, loaded, built, saved>>

\* the check of the transcoder used by both tools: a tuple is never falsy
NotFound_TupleTruthy(found) == found = None

\* `if not encoder_path` (vae) / `if not encoder_path_and_prefix` (transcoder)
NotFound(found) == IF tool = "vae" THEN found[1] = <<>> ELSE found = None

\* the check of the encoder tuple alone
CheckFound_EncoderOnly ==
    /\ pc = "check"
    /\ pc' = IF NotFound(encoder_found) THEN "fatal" ELSE "build"
    /\ UNCHANGED <<callVars, tool, cli, encoder_found, decoder_found, loaded, built, saved>>

CheckFound ==
    /\ pc = "check"
    /\ pc' = IF NotFound(encoder_found) \/ NotFound(decoder_found) THEN "fatal" ELSE "build"
    /\ UNCHANGED <<callVars, tool, cli, encoder_found, decoder_found, loaded, built, saved>>

\* The print of the two sources and the build operation.  The transcoder
\* prints encoder_path_and_prefix[0], a TypeError when the tuple is None.
Build ==
    /\ pc = "build"
    /\ IF tool = "transcoder" /\ (encoder_found = None \/ decoder_found = None)
       THEN /\ pc' = "crashed"
            /\ UNCHANGED <<loaded, built>>
       ELSE LET r == IF tool = "vae"
                     THEN build_tiny_vae(encoder_found, decoder_found,
                                         cli.model_class, cli.dtype)
                     ELSE build_tiny_transcoder(encoder_found, decoder_found, TRUE,
                                                cli.from_latent_format,
                                                cli.to_latent_format, cli.dtype)
            IN  /\ pc' = IF r.raised = "no" THEN "save" ELSE "crashed"
                /\ loaded' = r.loaded
                /\ built' = r.value
    /\ UNCHANGED <<callVars, tool, cli, encoder_found, decoder_found, saved>>

Save ==
    /\ pc = "save"
    /\ saved' = TRUE
    /\ pc' = "done"
    /\ UNCHANGED <<callVars, tool, cli, encoder_found, decoder_found, loaded, built>>

FATAL_ERROR_CODE == 1

\* the exit status of a run that has ended: fatal_error exits with
\* FATAL_ERROR_CODE, the interpreter exits with 1 on an uncaught exception
\* and with 0 when main returns
exit_status ==
    CASE pc = "fatal"   -> FATAL_ERROR_CODE
      [] pc = "crashed" -> 1
      [] pc = "done"    -> 0

NextRun ==
    \/ VaeCheckModelClass
    \/ TranscoderCheckFormats
    \/ FindEncoder
    \/ FindDecoder
    \/ CheckFound
    \/ Build
    \/ Save

SpecRun == InitRun /\ [][NextRun]_vars

-----------------------------------------------------------------------------
(* Header Reader: claims *)

\* an empty header: `[]` or `{}`
IsEmptyHeader(h) == h.kind \in {"list", "object"} /\ h.items = <<>>

\* C1: get_safetensors_header returns an empty header whenever the file is
\* smaller than 8 bytes, or its declared header length is greater than
\* size_limit, or the header bytes do not parse as a JSON key mapping;
\* otherwise it returns the parsed mapping.
C1_EmptyHeaderOnEveryFailure ==
    (op = "get_safetensors_header" /\ arg.file.exists) =>
        LET f == arg.file
            failure == \/ f.size < 8
                       \/ f.header_length > arg.size_limit
                       \/ f.json.kind # "object"
        IN  IF failure THEN IsEmptyHeader(out) ELSE out = f.json

\* the files of the command line that are containers with a header that is
\* oversized or does not parse as a key mapping
BadHeader(path) ==
    LET f == FileAt(path)
    IN  f.exists /\ f.size >= 8
        /\ (f.header_length > SizeLimit \/ f.json.kind # "object")

WithoutBadHeaders(files) == SelectSeq(files, LAMBDA p : ~BadHeader(p))

CandidatesFor(role) ==
    IF tool = "vae" THEN cli.input_files
    ELSE <<IF role = S_encoder THEN cli.encoder_path ELSE cli.decoder_path>>

\* what the search returns on the candidates that remain once the files with
\* a bad header are skipped
SearchSkippingBad(role) ==
    IF tool = "vae"
    THEN find_taesd_with_role_vae(WithoutBadHeaders(CandidatesFor(role)), role).value
    ELSE find_taesd_with_role(WithoutBadHeaders(CandidatesFor(role)), role).value

\* C2: a candidate file whose header is oversized or malformed is skipped by
\* find_taesd_with_role: the search never aborts the run, and it returns what
\* it returns on the other candidates.
C2_BadHeadersAreSkipped ==
    /\ pc # "crashed"
    /\ pc \in {"find_decoder", "check", "build", "save", "done"} =>
          encoder_found = SearchSkippingBad(S_encoder)
    /\ pc \in {"check", "build", "save", "done"} =>
          decoder_found = SearchSkippingBad(S_decoder)

-----------------------------------------------------------------------------
(* main(): claims *)

\* the search found no file: None (transcoder) or an empty path (vae)
FoundNothing(found) == found = None \/ found[1] = <<>>

AfterCheck == pc \in {"build", "save", "done"}

\* C3 as stated: when the prefix of the encoder source or of the decoder
\* source resolves to the empty string, the run fails before load_tensors is
\* called and no checkpoint is assembled.
C3_EmptyPrefixIsFatal ==
    (AfterCheck \/ loaded # <<>> \/ built # <<>> \/ saved) =>
        (encoder_found[2] # <<>> /\ decoder_found[2] # <<>>)

\* C3 amended: when the search finds no file for the encoder role or for the
\* decoder role, the run ends in fatal_error before load_tensors is called on
\* any source file and no checkpoint is assembled or saved; a found source
\* whose prefix is empty is loaded with that empty prefix.
C3_MissingSourceIsFatal ==
    /\ (AfterCheck \/ loaded # <<>> \/ built # <<>> \/ saved) =>
          (~FoundNothing(encoder_found) /\ ~FoundNothing(decoder_found))
    /\ pc = "fatal" => (loaded = <<>> /\ built = <<>> /\ ~saved)
    /\ pc \in {"save", "done"} => loaded = <<encoder_found, decoder_found>>

\* a run that found an encoder and no decoder, and ended in fatal_error
C3_Witness ==
    /\ pc = "fatal"
    /\ encoder_found # Idle /\ decoder_found # Idle
    /\ ~FoundNothing(encoder_found)
    /\ FoundNothing(decoder_found)

\* role detection, run on a candidate file, says it has the role
SatisfiesRole(path, role) ==
    /\ path \in DiskPaths
    /\ LET header == get_safetensors_header(FileAt(path), SizeLimit)
       IN  ~is_taesd_with_role_raises(header) /\ is_taesd_with_role(path, header, role)

NoCandidateFor(role) ==
    \A i \in 1..Len(CandidatesFor(role)) : ~SatisfiesRole(CandidatesFor(role)[i], role)

-----------------------------------------------------------------------------
(* Role Classifier: claims *)

SomeKey(keys, P(_)) == \E i \in 1..Len(keys) : P(keys[i])

RuleB(keys) == InSeq(K_dec_layers_3, keys) /\ InSeq(K_dec_layers_8, keys)

RuleC(keys) == InSeq(K_enc_layers_4, keys) /\ InSeq(K_enc_layers_8, keys)

RuleD(keys) ==
    SomeKey(keys, LAMBDA k : \/ StartsWith(k, S_taesd) \/ StartsWith(k, S_taesdxl)
                             \/ StartsWith(k, S_taesd3) \/ StartsWith(k, S_taef1))

\* C4 as stated: is_taesd is true exactly when (a) some key ends in
\* '.3.conv.4.bias' and some key ends in '.8.conv.0.weight', or (b), (c) or
\* (d) holds.
C4_RuleASuffix ==
    op = "is_taesd" =>
        LET keys == arg.state_dict
            a == /\ SomeKey(keys, LAMBDA k : EndsWith(k, S_dot \o K_3_conv_4_bias))
                 /\ SomeKey(keys, LAMBDA k : EndsWith(k, S_dot \o K_8_conv_0_weight))
        IN  out = (a \/ RuleB(keys) \/ RuleC(keys) \/ RuleD(keys))

\* C4 amended: is_taesd is true exactly when (a) the header has both keys
\* '3.conv.4.bias' and '8.conv.0.weight' themselves, or (b), (c) or (d) holds.
C4_RuleAExactKeys ==
    op = "is_taesd" =>
        LET keys == arg.state_dict
            a == /\ SomeKey(keys, LAMBDA k : k = K_3_conv_4_bias)
                 /\ SomeKey(keys, LAMBDA k : k = K_8_conv_0_weight)
        IN  out = (a \/ RuleB(keys) \/ RuleC(keys) \/ RuleD(keys))

\* is_taesd accepted the two raw keys
C4_Witness ==
    /\ op = "is_taesd"
    /\ arg.state_dict = <<K_8_conv_0_weight, K_3_conv_4_bias>>
    /\ out = TRUE

\* the lower-cased base name, extension removed, of each path of Paths
ExpectedStem(path) ==
    CASE path = P_taesd_decoder -> S_taesd_decoder
      [] path = P_TAESD_Encoder -> S_taesd_encoder
      [] path = P_decoder_dir   -> S_model
      [] path = P_model_decoder -> S_model
      [] path = P_model         -> S_model
      [] path = P_dot_encoder   -> S_dot \o S_encoder

\* C5: is_taesd_with_role is false when is_taesd is false; otherwise true if
\* some key contains the role name, and otherwise whether the role name
\* occurs in the lower-cased base name (extension removed) of the path.  The
\* header of the two decoder.layers keys has role decoder for any path.
C5_RoleDetection ==
    op = "is_taesd_with_role" =>
        LET keys == arg.state_dict
        IN  /\ out = IF ~is_taesd(keys) THEN FALSE
                     ELSE IF SomeKey(keys, LAMBDA k : Contains(k, arg.role)) THEN TRUE
                     ELSE Contains(ExpectedStem(arg.file_path), arg.role)
            /\ (keys = <<K_dec_layers_3, K_dec_layers_8>> /\ arg.role = S_decoder) =>
                  (is_taesd(keys) /\ out = TRUE)

\* the file name alone gives the role: raw keys, upper-case file name
C5_Witness ==
    /\ op = "is_taesd_with_role"
    /\ arg.state_dict = RawKeys
    /\ arg.file_path = P_TAESD_Encoder
    /\ arg.role = S_encoder
    /\ out = TRUE

-----------------------------------------------------------------------------
(* Prefix Resolver: claims *)

\* C6: get_tensor_prefix returns key[:-len(suffix)] for the first key, in
\* stored order, that ends with suffix and does not contain exclude, and the
\* empty string when no key qualifies; a non-empty result never contains
\* exclude, and result + suffix is a key of the header.
C6_FirstQualifyingKey ==
    op = "get_tensor_prefix" =>
        LET keys == arg.state_dict
            suffix == arg.postfix
            exclude == arg.not_containing
            Qualifies(k) == /\ EndsWith(k, suffix)
                            /\ exclude = None \/ ~Contains(k, exclude)
            Q == {i \in 1..Len(keys) : Qualifies(keys[i])}
            first == CHOOSE i \in Q : \A j \in Q : i <= j
        IN  /\ Q = {} => out = <<>>
            /\ Q # {} => /\ Len(out) = (IF suffix = <<>> THEN 0
                                        ELSE Len(keys[first]) - Len(suffix))
                         /\ StartsWith(keys[first], out)
            /\ out # <<>> => /\ exclude # None => ~Contains(out, exclude)
                             /\ InSeq(out \o suffix, keys)

\* the decoder key comes first and is skipped: the encoder prefix is returned
C6_Witness ==
    /\ op = "get_tensor_prefix"
    /\ arg.state_dict = <<K_dec_layers_3, K_enc_layers_3>>
    /\ arg.postfix = K_dot_3_conv_4_bias
    /\ arg.not_containing = S_decoder
    /\ out = S_encoder_dot \o S_layers

-----------------------------------------------------------------------------
(* Tensor Projector: claims *)

\* a prefix with '.' appended when it is non-empty and does not end with '.'
Normalized(prefix) ==
    IF prefix = <<>> THEN prefix
    ELSE IF prefix[Len(prefix)] = "." THEN prefix
    ELSE Append(prefix, ".")

\* C7: load_tensors returns exactly the mapping
\* { target_prefix + k[len(prefix):] -> tensor(k) : k starts with prefix },
\* both prefixes normalized first.
C7_ProjectionMapping ==
    op = "load_tensors" =>
        LET prefix == Normalized(arg.prefix)
            target == Normalized(arg.target_prefix)
            under == {i \in 1..Len(arg.tensors) : StartsWith(arg.tensors[i][1], prefix)}
        IN  AsMap(out) =
               {<<target \o SubSeq(arg.tensors[i][1], Len(prefix) + 1,
                                   Len(arg.tensors[i][1])),
                  arg.tensors[i][2]>> : i \in under}

\* prefix "vae" loads "vae.3.conv.4.bias" and leaves "vaex.w" out
C7_Witness ==
    /\ op = "load_tensors"
    /\ arg.prefix = S_vae
    /\ arg.target_prefix = S_taesd_encoder
    /\ arg.tensors = <<<<K_vae_3, 1>>, <<K_vaex_w, 2>>>>
    /\ out = <<<<S_taesd_encoder \o K_dot_3_conv_4_bias, 1>>>>

\* C8: distinct keys under the source prefix are projected to distinct keys:
\* the result has as many entries as the file has keys under the prefix.
C8_ProjectionInjective ==
    op = "load_tensors" =>
        LET prefix == Normalized(arg.prefix)
            under == {i \in 1..Len(arg.tensors) : StartsWith(arg.tensors[i][1], prefix)}
        IN  /\ Len(out) = Cardinality(under)
            /\ \A a, b \in 1..Len(out) : a # b => out[a][1] # out[b][1]

\* two keys under the prefix, two entries in the result
C8_Witness ==
    /\ op = "load_tensors"
    /\ arg.prefix = S_vae
    /\ arg.tensors = <<<<K_vae_3, 1>>, <<S_vae_dot, 2>>>>
    /\ Len(out) = 2

-----------------------------------------------------------------------------
(* Key Transformer: claims *)

\* the key C9 gives for a key: unchanged unless it starts with the prefix and
\* its next segment is a non-negative integer literal
ClaimedKey(key, layer_prefix, offset) ==
    IF ~StartsWith(key, layer_prefix) THEN key
    ELSE LET rest == SubSeq(key, Len(layer_prefix) + 1, Len(key))
             dots == {i \in 1..Len(rest) : rest[i] = "."}
             cut == IF dots = {} THEN Len(rest) + 1
                    ELSE CHOOSE i \in dots : \A j \in dots : i <= j
             segment == SubSeq(rest, 1, cut - 1)
             tail == SubSeq(rest, cut, Len(rest))
         IN  IF ~IsDecimal(segment) THEN key
             ELSE layer_prefix \o FormatInt(ParseInt(segment) + offset) \o tail

\* C9: shift_layers renames each key as stated, and every tensor value stays
\* attached to its (possibly renamed) key.
C9_EveryTensorUnderItsNewKey ==
    op = "shift_layers" =>
        \A i \in 1..Len(arg.tensors) :
            LET key == ClaimedKey(arg.tensors[i][1], arg.layer_prefix, arg.layer_offset)
            IN  HasKey(out, key) /\ Get(out, key) = arg.tensors[i][2]

\* C10: shifting by +n and then by -n gives back exactly the original keys,
\* each bound to its original tensor.
C10_ShiftRoundTrip ==
    op = "shift_layers_back" => AsMap(out) = AsMap(arg.tensors)

-----------------------------------------------------------------------------
(* Checkpoint Assembler: claims *)

\* a call of a build operation that returned a checkpoint
ReturnedFrom(operation) == op = operation /\ out.raised = "no"

\* the encoder and decoder projections of a call, merged
MergedOf(a, encoder_target, decoder_target) ==
    Merge(load_tensors(TensorsAt(a.encoder_path_and_prefix[1]),
                       a.encoder_path_and_prefix[2], encoder_target),
          load_tensors(TensorsAt(a.decoder_path_and_prefix[1]),
                       a.decoder_path_and_prefix[2], decoder_target))

\* the keys the transcoder build injects
TranscoderConstants ==
    {K_gaussian_blur_sigma, K_adapter_in_scale, K_adapter_in_shift,
     K_adapter_out_scale, K_adapter_out_shift}

\* the same numbers: a cast changes the dtype and the precision only
SameData(a, b) == a.data = b.data /\ a.shape = b.shape

\* C11: when the merged set holds 'decoder.0.weight', every key
\* 'decoder.<N>...' with numeric N is found as 'decoder.<N+1>...', the
\* checkpoint has no key 'decoder.0.weight' and its tensor is found under
\* 'decoder.1.weight'; when the merged set does not hold it, no key is
\* renumbered.
C11_DecoderLayersShiftedByOne ==
    ReturnedFrom("build_tiny_transcoder") =>
        LET merged == MergedOf(arg, S_encoder_dot, S_decoder_dot)
        IN  IF HasKey(merged, K_decoder_0_weight)
            THEN /\ \A i \in 1..Len(merged) :
                        HasKey(out.value, ClaimedKey(merged[i][1], S_decoder_dot, 1))
                 /\ ~HasKey(out.value, K_decoder_0_weight)
                 /\ HasKey(out.value, K_decoder_1_weight)
                 /\ SameData(Get(out.value, K_decoder_1_weight),
                             Get(merged, K_decoder_0_weight))
            ELSE {out.value[i][1] : i \in 1..Len(out.value)} \ TranscoderConstants
                    = {merged[i][1] : i \in 1..Len(merged)}


\* C12: the checkpoint holds 'gaussian_blur_sigma' exactly when the input
\* latent format is 'sdxl' and the output latent format is 'sd'; its value is
\* 0.5, made as a one-element 32-bit float array (cast like every tensor when
\* a dtype is given).
C12_GaussianBlurOnlyFromSdxlToSd ==
    ReturnedFrom("build_tiny_transcoder") =>
        /\ HasKey(out.value, K_gaussian_blur_sigma)
              <=> (arg.input_latent_format = "sdxl" /\ arg.output_latent_format = "sd")
        /\ HasKey(out.value, K_gaussian_blur_sigma) =>
              LET sigma == Get(out.value, K_gaussian_blur_sigma)
              IN  /\ sigma.data = Literal(50000)
                  /\ sigma.shape = <<1>>
                  /\ sigma.precision <= 32
                  /\ arg.dtype = NoDtype => sigma.dtype = "float32"

C12_Witness ==
    /\ ReturnedFrom("build_tiny_transcoder")
    /\ arg.input_latent_format = "sdxl" /\ arg.output_latent_format = "sd"
    /\ HasKey(out.value, K_gaussian_blur_sigma)
    /\ Len(out.value) > 1


\* the adapter table as C13 states it, in units of 0.00001
C13_Table(latent_format) ==
    CASE latent_format = "sd"   -> <<18215, 0>>
      [] latent_format = "sdxl" -> <<13025, 0>>
      [] latent_format = "sd3"  -> <<153050, -6090>>
      [] latent_format = "f1"   -> <<36110, -11590>>

AdapterKeys ==
    {K_adapter_in_scale, K_adapter_in_shift, K_adapter_out_scale, K_adapter_out_shift}

\* C13: with use_unnormalized_adapter the checkpoint holds the four adapter
\* keys, the 'in' pair being the table entry of the input latent format and
\* the 'out' pair the table entry of the output latent format; without the
\* flag it holds none of the four.
C13_AdapterFromTable ==
    ReturnedFrom("build_tiny_transcoder") =>
        IF arg.use_unnormalized_adapter
        THEN /\ \A k \in AdapterKeys : HasKey(out.value, k)
             /\ Get(out.value, K_adapter_in_scale).data
                    = Literal(C13_Table(arg.input_latent_format)[1])
             /\ Get(out.value, K_adapter_in_shift).data
                    = Literal(C13_Table(arg.input_latent_format)[2])
             /\ Get(out.value, K_adapter_out_scale).data
                    = Literal(C13_Table(arg.output_latent_format)[1])
             /\ Get(out.value, K_adapter_out_shift).data
                    = Literal(C13_Table(arg.output_latent_format)[2])
        ELSE \A k \in AdapterKeys : ~HasKey(out.value, k)

C13_Witness ==
    /\ ReturnedFrom("build_tiny_transcoder")
    /\ arg.use_unnormalized_adapter
    /\ arg.input_latent_format = "sd3" /\ arg.output_latent_format = "f1"
    /\ Get(out.value, K_adapter_in_shift).data = Literal(-6090)
    /\ Get(out.value, K_adapter_out_scale).data = Literal(36110)

\* a call with the adapter flag set and a latent format outside the table
AdapterCallWithUnknownFormat ==
    /\ op = "build_tiny_transcoder"
    /\ arg.use_unnormalized_adapter
    /\ \/ arg.input_latent_format \notin VALID_LATENT_FORMATS
       \/ arg.output_latent_format \notin VALID_LATENT_FORMATS

\* C14: with the adapter flag set and a latent format that is none of sd,
\* sdxl, sd3, f1, the scale and shift of that format are injected as the
\* default pair (1.0, 0.0).
C14_DefaultAdapterForUnknownFormat ==
    AdapterCallWithUnknownFormat =>
        /\ out.raised = "no"
        /\ arg.input_latent_format \notin VALID_LATENT_FORMATS =>
              /\ HasKey(out.value, K_adapter_in_scale)
              /\ Get(out.value, K_adapter_in_scale).data = Literal(100000)
              /\ HasKey(out.value, K_adapter_in_shift)
              /\ Get(out.value, K_adapter_in_shift).data = Literal(0)
        /\ arg.output_latent_format \notin VALID_LATENT_FORMATS =>
              /\ HasKey(out.value, K_adapter_out_scale)
              /\ Get(out.value, K_adapter_out_scale).data = Literal(100000)
              /\ HasKey(out.value, K_adapter_out_shift)
              /\ Get(out.value, K_adapter_out_shift).data = Literal(0)

\* C14 as amended: with the adapter flag set and a latent format that is none
\* of sd, sdxl, sd3, f1, the call fails on its assertion, opens no file and
\* injects nothing; the default pair of the lookup is never used.
C14_UnknownFormatIsNeverAdapted ==
    AdapterCallWithUnknownFormat =>
        (out.raised = "AssertionError" /\ out.loaded = <<>> /\ out.value = <<>>)

C14_Witness ==
    /\ AdapterCallWithUnknownFormat
    /\ arg.input_latent_format = "flux" /\ arg.output_latent_format = "sd"
    /\ CanOpen(arg.encoder_path_and_prefix[1]) /\ CanOpen(arg.decoder_path_and_prefix[1])
    /\ out.raised = "AssertionError"

\* C15: a call of a build operation with a tag outside {sd, sdxl, sd3, f1}
\* fails before any source file is opened and returns no mapping.
C15_InvalidTagIsFatal ==
    /\ (op = "build_tiny_transcoder"
        /\ (arg.input_latent_format \notin {"sd", "sdxl", "sd3", "f1"}
            \/ arg.output_latent_format \notin {"sd", "sdxl", "sd3", "f1"}))
       => (out.raised = "AssertionError" /\ out.loaded = <<>> /\ out.value = <<>>)
    /\ (op = "build_tiny_vae" /\ arg.model_class \notin {"sd", "sdxl", "sd3", "f1"})
       => (out.raised = "AssertionError" /\ out.loaded = <<>> /\ out.value = <<>>)

C15_Witness ==
    /\ op = "build_tiny_vae"
    /\ arg.model_class = "flux"
    /\ CanOpen(arg.encoder_path_and_prefix[1]) /\ CanOpen(arg.decoder_path_and_prefix[1])
    /\ out.raised = "AssertionError"


\* the table of build_tiny_vae as C16 states it, in units of 0.00001
C16_Table(model_class) ==
    CASE model_class = "sd"   -> <<18215, 0>>
      [] model_class = "sdxl" -> <<13025, 0>>
      [] model_class = "sd3"  -> <<153050, 6090>>
      [] model_class = "f1"   -> <<36110, 11590>>

KeysOf(d) == {d[i][1] : i \in 1..Len(d)}

\* C16: when the merged set holds neither 'vae_scale' nor 'vae_shift',
\* build_tiny_vae adds both with the values of the table for the model class
\* (f1: 0.3611 and 0.1159), exact when no cast is asked for; when the merged
\* set holds either key, it adds neither.
C16_VaeScaleShiftFromTable ==
    ReturnedFrom("build_tiny_vae") =>
        LET merged == MergedOf(arg, S_taesd_encoder, S_taesd_decoder)
        IN  IF ~HasKey(merged, K_vae_scale) /\ ~HasKey(merged, K_vae_shift)
            THEN /\ KeysOf(out.value) = KeysOf(merged) \cup {K_vae_scale, K_vae_shift}
                 /\ Get(out.value, K_vae_scale).data = Literal(C16_Table(arg.model_class)[1])
                 /\ Get(out.value, K_vae_shift).data = Literal(C16_Table(arg.model_class)[2])
                 /\ arg.dtype = NoDtype =>
                       /\ Get(out.value, K_vae_scale).precision = 64
                       /\ Get(out.value, K_vae_shift).precision = 64
            ELSE /\ KeysOf(out.value) = KeysOf(merged)
                 /\ \A k \in {K_vae_scale, K_vae_shift} :
                        HasKey(out.value, k) => SameData(Get(out.value, k), Get(merged, k))

C16_Witness ==
    /\ ReturnedFrom("build_tiny_vae")
    /\ arg.model_class = "f1"
    /\ arg.dtype = NoDtype
    /\ Len(out.value) > 2
    /\ Get(out.value, K_vae_scale).data = Literal(36110)
    /\ Get(out.value, K_vae_shift).data = Literal(11590)


-----------------------------------------------------------------------------
(* build_auxiliary: claims *)

\* the keys C17 gives a key of a VAE file under 'first_stage_model.<tag>'
C17_VaeImage(key, tagged) ==
    IF StartsWith(key, S_taesd_encoder_dot)
    THEN {tagged \o S_dot \o S_encoder_dot \o DropFirst(key, Len(S_taesd_encoder_dot))}
    ELSE IF StartsWith(key, S_taesd_decoder_dot)
    THEN {tagged \o S_dot \o S_decoder_dot \o DropFirst(key, Len(S_taesd_decoder_dot))}
    ELSE IF key \in {K_vae_scale, K_vae_shift}
    THEN {tagged \o S_dot \o S_encoder_dot \o key, tagged \o S_dot \o S_decoder_dot \o key}
    ELSE {}

\* the key C17 gives a key of the transcoder file
C17_TranscoderImage(key) == {S_transcoder \o S_dot \o key}

\* every tensor of a file is found under each of its new keys, unless the
\* file holds another key with the same new key
C17_FileMapped(tensors, Image(_)) ==
    \A i \in 1..Len(tensors) : \A k \in Image(tensors[i][1]) :
        /\ HasKey(out, k)
        /\ (\A j \in 1..Len(tensors) : j # i => k \notin Image(tensors[j][1]))
              => SameData(Get(out, k), tensors[i][2])

-----------------------------------------------------------------------------
(* dtype cast and fidelity: claims *)

\* cast is plain with every tensor in the dtype: same keys in the same order,
\* same shapes, same numbers
CastOf(cast, plain, dtype) ==
    /\ Len(cast) = Len(plain)
    /\ \A i \in 1..Len(cast) :
          /\ cast[i][1] = plain[i][1]
          /\ cast[i][2].dtype = dtype
          /\ SameData(cast[i][2], plain[i][2])

\* C19: when a dtype is given, every tensor of the checkpoint a build
\* operation returns has that dtype, the injected constants included, and the
\* checkpoint is otherwise the one the same call returns without a dtype:
\* the cast comes last and keeps every key and shape.
C19_CastIsLastAndTotal ==
    /\ (ReturnedFrom("build_tiny_transcoder") /\ arg.dtype # NoDtype) =>
          CastOf(out.value,
                 build_tiny_transcoder(arg.encoder_path_and_prefix,
                     arg.decoder_path_and_prefix, arg.use_unnormalized_adapter,
                     arg.input_latent_format, arg.output_latent_format, NoDtype).value,
                 arg.dtype)
    /\ (ReturnedFrom("build_tiny_vae") /\ arg.dtype # NoDtype) =>
          CastOf(out.value,
                 build_tiny_vae(arg.encoder_path_and_prefix, arg.decoder_path_and_prefix,
                                arg.model_class, NoDtype).value,
                 arg.dtype)
    /\ (op = "build_auxiliary" /\ arg.dtype # NoDtype) =>
          CastOf(out,
                 build_auxiliary(arg.tiny_vae_sd, arg.tiny_vae_sdxl, arg.tiny_transcoder,
                                 NoDtype),
                 arg.dtype)

\* a VAE checkpoint cast to 16 bits: the injected 64-bit vae_scale and a
\* 32-bit tensor of a source are both 16-bit
C19_Witness ==
    /\ ReturnedFrom("build_tiny_vae")
    /\ arg.dtype = "float16"
    /\ Get(out.value, K_vae_scale).dtype = "float16"
    /\ Get(out.value, K_vae_scale).shape = <<>>
    /\ \E i \in 1..Len(out.value) :
          /\ out.value[i][2].data[1] = arg.encoder_path_and_prefix[1]
          /\ out.value[i][2].dtype = "float16"
          /\ out.value[i][2].shape = <<1, 3>>


\* every tensor of the source under the prefix is found unchanged under the
\* key Rename gives its projected key
SourceKept(source, target_prefix, Rename(_)) ==
    LET tensors == TensorsAt(source[1])
    IN  \A i \in 1..Len(tensors) :
            StartsWith(tensors[i][1], WithDot(source[2])) =>
                LET key == Rename(target_prefix
                                  \o DropFirst(tensors[i][1], Len(WithDot(source[2]))))
                IN  HasKey(out.value, key) /\ Get(out.value, key) = tensors[i][2]

\* C20: without a dtype cast, every tensor a build operation takes from a
\* source file is in the checkpoint with the dtype, shape and payload it has
\* in the source, under its renamed and, where the decoder layers are
\* shifted, renumbered key.
C20_SourceTensorsUnchanged ==
    /\ (ReturnedFrom("build_tiny_transcoder") /\ arg.dtype = NoDtype) =>
          LET shifts == HasKey(MergedOf(arg, S_encoder_dot, S_decoder_dot),
                               K_decoder_0_weight)
              Rename(key) == IF shifts THEN ClaimedKey(key, S_decoder_dot, 1) ELSE key
          IN  /\ SourceKept(arg.encoder_path_and_prefix, S_encoder_dot, Rename)
              /\ SourceKept(arg.decoder_path_and_prefix, S_decoder_dot, Rename)
    /\ (ReturnedFrom("build_tiny_vae") /\ arg.dtype = NoDtype) =>
          LET Rename(key) == key
          IN  /\ SourceKept(arg.encoder_path_and_prefix, S_taesd_encoder_dot, Rename)
              /\ SourceKept(arg.decoder_path_and_prefix, S_taesd_decoder_dot, Rename)

-----------------------------------------------------------------------------
(* Header Reader: bytes read *)

RECURSIVE BytesRead(_)
BytesRead(rs) ==
    IF rs = <<>> THEN 0 ELSE rs[1].returned + BytesRead(DropFirst(rs, 1))

\* the read stays inside the first upto bytes of the file
ReadsWithin(r, upto) == r.offset + r.returned <= upto

\* C21: get_safetensors_header reads at most 8 + header_length bytes and
\* never more than 8 + size_limit bytes: the 8-byte length prefix first, the
\* declared header bytes only when the declared length does not exceed
\* size_limit, and no byte of the tensor payload after the header.
C21_BoundedLookAhead ==
    op = "get_safetensors_header" =>
        LET f == arg.file
        IN  /\ BytesRead(reads) <= 8 + f.header_length
            /\ BytesRead(reads) <= 8 + arg.size_limit
            /\ Len(reads) <= 2
            /\ Len(reads) >= 1 => reads[1] = [offset |-> 0, returned |-> 8]
            /\ Len(reads) = 2 =>
                  (f.header_length <= arg.size_limit /\ reads[2].offset = 8)
            /\ \A i \in 1..Len(reads) : ReadsWithin(reads[i], 8 + f.header_length)

\* a file with payload after its header, read under a limit its header fits
C21_Witness ==
    /\ op = "get_safetensors_header"
    /\ arg.file.size > 8 + arg.file.header_length
    /\ arg.file.header_length > 0
    /\ BytesRead(reads) = 8 + arg.file.header_length

\* a header longer than the limit, in a file that holds it: only the length
\* prefix is read
C21_WitnessOverLimit ==
    /\ op = "get_safetensors_header"
    /\ arg.file.header_length > arg.size_limit
    /\ arg.file.size >= 8 + arg.file.header_length
    /\ BytesRead(reads) = 8

-----------------------------------------------------------------------------
(* Role Classifier: independence of the path *)

\* the call has the same result for every path of Paths
SameForEveryPath ==
    \A p \in Paths : is_taesd_with_role(p, JsonObject(arg.state_dict), arg.role) = out

\* C22: for a header that is not of a known family, or that has a key
\* containing the role name, is_taesd_with_role gives the same answer for
\* every file path; the path decides only in the file-name fallback.
C22_RoleIndependentOfPath ==
    (/\ op = "is_taesd_with_role"
     /\ \/ ~is_taesd(arg.state_dict)
        \/ SomeKey(arg.state_dict, LAMBDA k : Contains(k, arg.role))) =>
        SameForEveryPath

\* the keys give the role decoder although the file is named after the encoder
C22_Witness ==
    /\ op = "is_taesd_with_role"
    /\ arg.state_dict = <<K_dec_layers_3, K_dec_layers_8>>
    /\ arg.role = S_decoder
    /\ arg.file_path = P_TAESD_Encoder
    /\ out = TRUE

\* a header of no known family is refused although the file is named after
\* the role
C22_WitnessUnknownFamily ==
    /\ op = "is_taesd_with_role"
    /\ ~is_taesd(arg.state_dict)
    /\ arg.role = S_encoder
    /\ arg.file_path = P_TAESD_Encoder
    /\ out = FALSE

\* the fallback the claim sets apart: a known family without a key naming
\* the role, where the path decides
C22_FallbackDependsOnPath ==
    /\ op = "is_taesd_with_role"
    /\ arg.state_dict = RawKeys
    /\ ~SameForEveryPath

-----------------------------------------------------------------------------
(* Checkpoint Assembler: the two projections and the injected constants *)

\* the projection of one source of a build call
ProjectionOf(source, target_prefix) ==
    load_tensors(TensorsAt(source[1]), source[2], target_prefix)

\* every entry of part is in whole, under its key and with its numbers
KeptIn(part, whole) ==
    \A i \in 1..Len(part) :
        HasKey(whole, part[i][1]) /\ SameData(Get(whole, part[i][1]), part[i][2])

\* the union of the two projections loses nothing, and what the build adds
\* afterwards replaces no entry of base, the set the constants are added to
NoCollision(encoder_target, decoder_target, base, constants) ==
    LET encoder_tensors == ProjectionOf(arg.encoder_path_and_prefix, encoder_target)
        decoder_tensors == ProjectionOf(arg.decoder_path_and_prefix, decoder_target)
        merged == MergedOf(arg, encoder_target, decoder_target)
    IN  /\ \A i \in 1..Len(encoder_tensors) :
               StartsWith(encoder_tensors[i][1], WithDot(encoder_target))
        /\ \A i \in 1..Len(decoder_tensors) :
               StartsWith(decoder_tensors[i][1], WithDot(decoder_target))
        /\ Len(merged) = Len(encoder_tensors) + Len(decoder_tensors)
        /\ KeptIn(encoder_tensors, merged)
        /\ KeptIn(decoder_tensors, merged)
        /\ KeysOf(base) \cap constants = {}
        /\ KeptIn(base, out.value)
        /\ Len(out.value) = Len(base) + Cardinality(KeysOf(out.value) \cap constants)

\* C23: in build_tiny_transcoder and build_tiny_vae every projected encoder
\* key starts with the encoder target prefix and every projected decoder key
\* with the decoder target prefix, the merged set has as many entries as the
\* two projections together, and neither the union nor an injected constant
\* replaces a source tensor.
C23_ProjectionsNeverCollide ==
    /\ ReturnedFrom("build_tiny_transcoder") =>
          NoCollision(S_encoder_dot, S_decoder_dot,
                      fix_decoder_layers(MergedOf(arg, S_encoder_dot, S_decoder_dot)),
                      TranscoderConstants)
    /\ ReturnedFrom("build_tiny_vae") =>
          NoCollision(S_taesd_encoder, S_taesd_decoder,
                      MergedOf(arg, S_taesd_encoder, S_taesd_decoder),
                      {K_vae_scale, K_vae_shift})

\* one file given as both sources, with the same prefix: the same keys are
\* projected twice and all the constants are injected
C23_Witness ==
    /\ ReturnedFrom("build_tiny_transcoder")
    /\ arg.encoder_path_and_prefix = <<P_taesd_decoder, <<>>>>
    /\ arg.decoder_path_and_prefix = <<P_taesd_decoder, <<>>>>
    /\ Len(out.value) = 2 * Len(RawKeys) + Cardinality(TranscoderConstants)

\* the same for build_tiny_vae, on a source that stores a 'vae_scale'
C23_WitnessVae ==
    /\ ReturnedFrom("build_tiny_vae")
    /\ arg.encoder_path_and_prefix = <<P_taesd_encoder, <<>>>>
    /\ arg.decoder_path_and_prefix = <<P_taesd_encoder, <<>>>>
    /\ Len(out.value) = 6

-----------------------------------------------------------------------------
(* Key Transformer: number of entries *)

\* C24: shift_layers never loses a tensor: the returned mapping has as many
\* entries as the input, for every input mapping, prefix and offset.
C24_ShiftKeepsEveryEntry ==
    op = "shift_layers" => Len(out) = Len(arg.tensors)

-----------------------------------------------------------------------------
(* build_tiny_vae: the constants are always injected *)

\* the key is one of the two constants, at the top level
IsVaeConstant(key) == key \in {K_vae_scale, K_vae_shift}

\* C25: for every pair of sources and every valid model class, the checkpoint
\* returned by build_tiny_vae has top-level keys 'vae_scale' and 'vae_shift'
\* made from the table values of the model class; every other key is under
\* 'taesd_encoder.' or 'taesd_decoder.', so a scale or shift stored in a
\* source neither suppresses nor replaces the constants.
C25_VaeConstantsAlwaysInjected ==
    ReturnedFrom("build_tiny_vae") =>
        /\ HasKey(out.value, K_vae_scale)
        /\ HasKey(out.value, K_vae_shift)
        /\ Get(out.value, K_vae_scale).data = Literal(C16_Table(arg.model_class)[1])
        /\ Get(out.value, K_vae_shift).data = Literal(C16_Table(arg.model_class)[2])
        /\ Get(out.value, K_vae_scale).shape = <<>>
        /\ Get(out.value, K_vae_shift).shape = <<>>
        /\ \A i \in 1..Len(out.value) :
               \/ IsVaeConstant(out.value[i][1])
               \/ StartsWith(out.value[i][1], S_taesd_encoder_dot)
               \/ StartsWith(out.value[i][1], S_taesd_decoder_dot)

\* a source that stores a 'vae_scale' of its own: it is kept under the
\* encoder namespace next to the injected constant
C25_Witness ==
    /\ ReturnedFrom("build_tiny_vae")
    /\ arg.encoder_path_and_prefix = <<P_taesd_encoder, <<>>>>
    /\ arg.model_class = "sd3"
    /\ HasKey(out.value, K_taesd_encoder_vae_scale)
    /\ Get(out.value, K_taesd_encoder_vae_scale).data = <<P_taesd_encoder, K_vae_scale>>
    /\ Get(out.value, K_vae_scale).data = Literal(153050)
    /\ Get(out.value, K_vae_shift).data = Literal(6090)

-----------------------------------------------------------------------------
(* build_auxiliary: namespaces of the checkpoint *)

\* the five prefixes of the checkpoint
AuxiliaryPrefixes ==
    {S_first_stage_model_sd \o S_dot \o S_encoder_dot,
     S_first_stage_model_sd \o S_dot \o S_decoder_dot,
     S_first_stage_model_xl \o S_dot \o S_encoder_dot,
     S_first_stage_model_xl \o S_dot \o S_decoder_dot,
     S_transcoder \o S_dot}

\* a key of a VAE source that load_encoder_decoder has a branch for
IsVaeSourceKey(key) ==
    \/ StartsWith(key, S_taesd_encoder_dot)
    \/ StartsWith(key, S_taesd_decoder_dot)
    \/ key \in {K_vae_scale, K_vae_shift}

\* no entry of the checkpoint holds a tensor of the source under a key that
\* is none of the four
OthersDropped(source) ==
    \A i \in 1..Len(source) :
        ~IsVaeSourceKey(source[i][1]) =>
            \A j \in 1..Len(out) : out[j][2].data # source[i][2].data

\* C26: every key of the checkpoint of build_auxiliary starts with one of the
\* five prefixes; a key of a VAE source that is none of 'taesd_encoder.*',
\* 'taesd_decoder.*', 'vae_scale', 'vae_shift' is dropped; and the three
\* re-namespaced sets are pairwise key-disjoint, so the union has as many
\* entries as the three sets together and keeps each of their tensors.
C26_AuxiliaryNamespaces ==
    op = "build_auxiliary" =>
        LET sd == load_encoder_decoder(arg.tiny_vae_sd, <<>>, S_first_stage_model_sd)
            xl == load_encoder_decoder(arg.tiny_vae_sdxl, <<>>, S_first_stage_model_xl)
            tr == load_tensors(arg.tiny_transcoder, <<>>, S_transcoder)
        IN  /\ \A i \in 1..Len(out) :
                   \E p \in AuxiliaryPrefixes : StartsWith(out[i][1], p)
            /\ OthersDropped(arg.tiny_vae_sd)
            /\ OthersDropped(arg.tiny_vae_sdxl)
            /\ KeysOf(sd) \cap KeysOf(xl) = {}
            /\ KeysOf(sd) \cap KeysOf(tr) = {}
            /\ KeysOf(xl) \cap KeysOf(tr) = {}
            /\ Len(out) = Len(sd) + Len(xl) + Len(tr)
            /\ KeptIn(sd, out) /\ KeptIn(xl, out) /\ KeptIn(tr, out)

\* the two VAE files hold the same key: the checkpoint has both tensors
C26_Witness ==
    /\ op = "build_auxiliary"
    /\ KeysOf(arg.tiny_vae_sd) = {K_taesd_encoder_3}
    /\ KeysOf(arg.tiny_vae_sdxl) = {K_taesd_encoder_3}
    /\ Len(out) = 2

\* a VAE file with a key of no namespace next to a transcoder key: one entry
C26_WitnessDropped ==
    /\ op = "build_auxiliary"
    /\ KeysOf(arg.tiny_vae_sd) = {K_x}
    /\ KeysOf(arg.tiny_transcoder) = {K_vae_scale}
    /\ KeysOf(out) = {S_transcoder \o S_dot \o K_vae_scale}

=============================================================================
